---- MODULE Spec2Model ----
(***************************************************************************)
(* Verification model of heyinLab/common:                                  *)
(*   pkg/common/registry.go  - customRegistrar (endpoint rewriting) and    *)
(*                             NewConsulRegistrar / parseEnvToMap          *)
(*   pkg/resource/file.go    - resource Client (batch file URLs, GetFile,  *)
(*                             GetDownloadUrl, ListFiles)                  *)
(* Go strings are TLA+ strings; Len, SubSeq and \o work on them            *)
(* character by character, so parsing and formatting are computed as the   *)
(* code computes them.                                                     *)
(***************************************************************************)
EXTENDS Integers, Sequences, FiniteSets, TLC

(***************************************************************************)
(* Bounds                                                                  *)
(***************************************************************************)
\* longest Endpoints list a caller hands to Register
MaxEndpoints == 2

\* longest FileIDs list a caller hands to the batch operations
MaxFileIDs == 2

(***************************************************************************)
(* String helpers (Go package strings / fmt / net)                         *)
(***************************************************************************)
SetMin(S) == CHOOSE m \in S : \A n \in S : m <= n

SetMax(S) == CHOOSE m \in S : \A n \in S : m >= n

\* strings.Index, 1-based; 0 when substr does not occur in s
Index(s, substr) ==
    LET hits == {i \in 1..(Len(s) - Len(substr) + 1) :
                    SubSeq(s, i, i + Len(substr) - 1) = substr}
    IN  IF hits = {} THEN 0 ELSE SetMin(hits)

\* strings.LastIndexByte, 1-based; 0 when c does not occur in s
LastIndexByte(s, c) ==
    LET hits == {i \in 1..Len(s) : SubSeq(s, i, i) = c}
    IN  IF hits = {} THEN 0 ELSE SetMax(hits)

\* s[i:] of Go for a 1-based i
From(s, i) == SubSeq(s, i, Len(s))

\* strings.SplitN(s, sep, 2): at most two tokens, cut at the first sep
SplitN2(s, sep) ==
    LET i == Index(s, sep)
    IN  IF i = 0 THEN <<s>>
        ELSE <<SubSeq(s, 1, i - 1), From(s, i + Len(sep))>>

\* strings.Split(s, sep): every token, cut at each sep
RECURSIVE Split(_, _)
Split(s, sep) ==
    LET i == Index(s, sep)
    IN  IF i = 0 THEN <<s>>
        ELSE <<SubSeq(s, 1, i - 1)>> \o Split(From(s, i + Len(sep)), sep)

\* a split at the last ":" that accepts whatever stands before it
SplitHostPort_LastColon(hostport) ==
    LET i == LastIndexByte(hostport, ":")
    IN  IF i = 0 THEN [ok |-> FALSE, host |-> "", port |-> ""]
        ELSE [ok |-> TRUE, host |-> SubSeq(hostport, 1, i - 1),
              port |-> From(hostport, i + 1)]

\* net.SplitHostPort(hostport): [ok, host, port]; ok = FALSE is err != nil
SplitHostPort(hostport) ==
    LET fail == [ok |-> FALSE, host |-> "", port |-> ""]
        i    == LastIndexByte(hostport, ":")
        end  == Index(hostport, "]")
        brk  == SubSeq(hostport, 1, 1) = "["
        j    == IF brk THEN 2 ELSE 1
        k    == IF brk THEN end + 1 ELSE 1
        host == IF brk THEN SubSeq(hostport, 2, end - 1)
                       ELSE SubSeq(hostport, 1, i - 1)
    IN  IF i = 0 THEN fail
        ELSE IF brk /\ end = 0 THEN fail
        ELSE IF brk /\ end + 1 # i THEN fail
        ELSE IF ~brk /\ Index(host, ":") # 0 THEN fail
        ELSE IF Index(From(hostport, j), "[") # 0 THEN fail
        ELSE IF Index(From(hostport, k), "]") # 0 THEN fail
        ELSE [ok |-> TRUE, host |-> host, port |-> From(hostport, i + 1)]

\* the format "%s://%s:%s/"
Sprintf_TrailingSlash(protocol, host, port) ==
    protocol \o "://" \o host \o ":" \o port \o "/"

\* fmt.Sprintf("%s://%s:%s", protocol, host, port)
Sprintf(protocol, host, port) == protocol \o "://" \o host \o ":" \o port

(***************************************************************************)
(* Go maps with string keys                                                *)
(***************************************************************************)
EmptyMap == [k \in {} |-> ""]

\* a map store that keeps the value a key already has
MapPut_KeepExisting(m, key, val) == m @@ (key :> val)

\* m[key] = val
MapPut(m, key, val) == (key :> val) @@ m

(***************************************************************************)
(* pkg/common/registry.go                                                  *)
(***************************************************************************)
\* values the process environment can hold for SERVICE_HOST
ServiceHostEnvs == {"", "::1"}

\* values the process environment can hold for HTTP_PORT_MAP / GRPC_PORT_MAP
HttpPortMapEnvs == {"8:30", "8:", "abc"}

GrpcPortMapEnvs == {"", "9:40", "8:41", "30:31", "a:b:c"}

\* results of getLocalIP: the first non-loopback IPv4 address, else 127.0.0.1
LocalIPs == {"127.0.0.1", "10.0.0.5"}

\* endpoint strings a service instance can advertise
EndpointPool ==
    {"http://a:8", "grpc://a:9", "https://a:", "HTTP://a:8", "http://[::1]:9",
     "http://a", "a:8", "grpc://a:b:8"}

\* all sequences over S of length 0..n
RECURSIVE SeqsUpTo(_, _)
SeqsUpTo(S, n) ==
    IF n = 0 THEN {<<>>}
    ELSE LET shorter == SeqsUpTo(S, n - 1)
         IN  shorter \cup {Append(q, x) : q \in {t \in shorter : Len(t) = n - 1}, x \in S}

EndpointLists == SeqsUpTo(EndpointPool, MaxEndpoints)

\* errors the embedded (consul) registrar can return; "" is nil
InnerErrors == {"", "consul: unavailable"}

VARIABLES
    env,               \* process environment: SERVICE_HOST, HTTP_PORT_MAP, GRPC_PORT_MAP
    constructed,       \* NewConsulRegistrar has returned the customRegistrar
    serviceHost,       \* customRegistrar.serviceHost
    portMap,           \* customRegistrar.portMap
    inEndpoints,       \* service.Endpoints as the caller passed it to Register
    svcEndpoints,      \* service.Endpoints after the last Register / Deregister
    httpEndpoints,     \* local httpEndpoints at the end of the last Register
    otherEndpoints,    \* local otherEndpoints at the end of the last Register
    registered,        \* Endpoints the inner registrar received in its last call
    innerCalls,        \* inner registrar calls made by the last operation
    innerRet,          \* error the inner registrar returned to the last operation
    lastOp,            \* last registrar operation: "none", "Register", "Deregister"
    regErr             \* error returned by the last registrar operation ("" is nil)

regVars == <<env, constructed, serviceHost, portMap, inEndpoints, svcEndpoints,
             httpEndpoints, otherEndpoints, registered, innerCalls, innerRet, lastOp,
             regErr>>

VARIABLES
    resOp,             \* last resource Client operation, "none" when idle
    reqIn,             \* caller's *BatchGetFileUrlsRequest when the call began (<<>> is nil)
    reqOut,            \* the same request object when the call returned
    argIn,             \* scalar arguments of the call (fileID; page, pageSize)
    sent,              \* gRPC requests the operation sent, in order
    remote,            \* what the remote service answered to the sent request
    ret,               \* values the operation returned
    callerCtx,         \* ctx argument of the call: its deadline and when it is cancelled
    callCtx,           \* timeoutCtx of the call (<<>> when none was derived)
    replyAt            \* time after the start of the call at which the remote side answers

resVars == <<resOp, reqIn, reqOut, argIn, sent, remote, ret, callerCtx, callCtx,
             replyAt>>

VARIABLES
    newOp,             \* constructor that ran: "none", "NewClient", "NewClientWithDiscovery"
    newArgs,           \* its arguments: config (<<>> is nil) and discovery ("" is nil)
    cfgObj,            \* the caller's *Config object after the constructor returned
    client,            \* the *Client returned (<<>> is nil): its config and conn
    newErr,            \* error the constructor returned
    dials,             \* kratosGrpc.DialInsecure calls made by the constructor
    closeErr           \* result of Client.Close: "unset" before Close, else its error

cliVars == <<newOp, newArgs, cfgObj, client, newErr, dials, closeErr>>

VARIABLES
    mailOp,            \* email Service operation that was called, "none" when idle
    mailReq,           \* its request (<<>> is nil)
    smtpTimeout,       \* Sender.config.SMTP.Timeout
    mailCallerCtx,     \* ctx argument of the call: its deadline and when it is cancelled
    mailCtx,           \* ctx that SendEmail derived with WithTimeout (<<>> when none)
    mailData,          \* data map the Sender method built (<<>> when none)
    renders,           \* RenderTemplate calls made
    rendered,          \* subject and body RenderTemplate returned (<<>> when none)
    mailPc,            \* position of the call: "idle", the SMTP step it is about to
                       \* make, or "returned"
    smtpLog,           \* SMTP steps made so far with their outcomes, in order
    mailErr,           \* error the operation returned
    elapsed            \* time since the operation was called

mailVars == <<mailOp, mailReq, smtpTimeout, mailCallerCtx, mailCtx, mailData, renders,
              rendered, mailPc, smtpLog, mailErr, elapsed>>

VARIABLES
    authOp,            \* middleware that handled the request, "none" before
    authIn,            \* the request: transport or metadata present, its headers
    handlerCalls,      \* calls of the wrapped handler
    handlerCtx,        \* context the handler was called with: its claims (<<>> is none)
    handlerRet,        \* reply and error the handler returned
    authRet            \* reply and error the middleware returned

authVars == <<authOp, authIn, handlerCalls, handlerCtx, handlerRet, authRet>>

vars == <<regVars, resVars, cliVars, mailVars, authVars>>

\* parseEnvToMap with the token test len(kv) >= 2
parseEnvToMap_AtLeastTwo(envVal, m) ==
    IF envVal = "" THEN m
    ELSE LET kv == Split(envVal, ":")
         IN  IF Len(kv) >= 2 THEN MapPut(m, kv[1], kv[2]) ELSE m

\* parseEnvToMap(envVal, m): the map m after the call
parseEnvToMap(envVal, m) ==
    IF envVal = "" THEN m
    ELSE LET kv == Split(envVal, ":")
         IN  IF Len(kv) = 2 THEN MapPut(m, kv[1], kv[2]) ELSE m

\* step 3 without the port-map lookup
FinalPort_Unmapped(port, pm) == port

\* step 3 that takes the map's value even when it is empty
FinalPort_AnyValue(port, pm) ==
    IF port \in DOMAIN pm THEN pm[port] ELSE port

\* step 3 of the Register loop: the host port for a container port
FinalPort(port, pm) ==
    IF port \in DOMAIN pm /\ pm[port] # "" THEN pm[port] ELSE port

\* a partition test on the first four characters of the scheme
IsHttp_Prefix(protocol) == Len(protocol) >= 4 /\ SubSeq(protocol, 1, 4) = "http"

\* the partition test of the Register loop
IsHttp(protocol) == protocol = "http"

\* one iteration that rewrites the host although the address did not split
RewriteEndpoint_NoPassThrough(endpoint, host, pm) ==
    LET parts == SplitN2(endpoint, "://")
    IN  IF Len(parts) # 2 THEN [http |-> FALSE, out |-> endpoint]
        ELSE LET hp == SplitHostPort(parts[2])
             IN  IF ~hp.ok THEN [http |-> FALSE, out |-> parts[1] \o "://" \o host]
                 ELSE [http |-> IsHttp(parts[1]),
                       out  |-> Sprintf(parts[1], host, FinalPort(hp.port, pm))]

\* one iteration of the Register loop: which list the endpoint is appended
\* to and the string that is appended
RewriteEndpoint(endpoint, host, pm) ==
    LET parts == SplitN2(endpoint, "://")
    IN  IF Len(parts) # 2 THEN [http |-> FALSE, out |-> endpoint]
        ELSE LET hp == SplitHostPort(parts[2])
             IN  IF ~hp.ok THEN [http |-> FALSE, out |-> endpoint]
                 ELSE [http |-> IsHttp(parts[1]),
                       out  |-> Sprintf(parts[1], host, FinalPort(hp.port, pm))]

\* the Register loop over service.Endpoints: <<httpEndpoints, otherEndpoints>>
RECURSIVE RegisterLoop(_, _, _, _, _)
RegisterLoop(eps, host, pm, http, other) ==
    IF eps = <<>> THEN <<http, other>>
    ELSE LET r == RewriteEndpoint(Head(eps), host, pm)
         IN  IF r.http
             THEN RegisterLoop(Tail(eps), host, pm, Append(http, r.out), other)
             ELSE RegisterLoop(Tail(eps), host, pm, http, Append(other, r.out))

\* the two partitions appended in the wrong order
JoinPartitions_OtherFirst(http, other) == other \o http

\* service.Endpoints = append(httpEndpoints, otherEndpoints...)
JoinPartitions(http, other) == http \o other


(***************************************************************************)
(* pkg/resource/file.go                                                    *)
(***************************************************************************)
\* file IDs a caller asks for
FileIDPool == {"f1", "f2"}

\* keys the remote service can put in its Results map
RespKeys == {"f1", "f2", "f9"}

FileIDLists == SeqsUpTo(FileIDPool, MaxFileIDs)

\* ExpiresIn values a caller can leave in a request (0 is the Go zero value)
ExpiresInArgs == {-1, 0, 7200}

\* errors of the gRPC call itself
RemoteErrors == {"rpc: unavailable", "context deadline exceeded"}

NilMap == <<>>

\* v1.FileUrlInfo items the remote service can answer with
WireItems ==
    {[Url |-> "u1", VariantUrls |-> <<("thumb" :> "u1t")>>, IsPublic |-> FALSE,
      ExpiresIn |-> 3600, Filename |-> "a.png", Size |-> 10,
      ContentType |-> "image/png", Success |-> TRUE, Error |-> ""],
     [Url |-> "cdn", VariantUrls |-> NilMap, IsPublic |-> TRUE,
      ExpiresIn |-> 0, Filename |-> "b.pdf", Size |-> 7,
      ContentType |-> "application/pdf", Success |-> TRUE, Error |-> ""],
     [Url |-> "", VariantUrls |-> NilMap, IsPublic |-> FALSE,
      ExpiresIn |-> 0, Filename |-> "", Size |-> 0,
      ContentType |-> "", Success |-> FALSE, Error |-> "not found"],
     [Url |-> "u2", VariantUrls |-> NilMap, IsPublic |-> FALSE,
      ExpiresIn |-> 60, Filename |-> "c.png", Size |-> 5,
      ContentType |-> "image/png", Success |-> FALSE, Error |-> "expired"]}

\* Results maps of a v1.BatchGetFileUrlsResponse
WireResultMaps == UNION {[K -> WireItems] : K \in SUBSET RespKeys}

\* v1.FileObject values the remote service can answer with
FileObjects ==
    {[Id |-> "f1", Filename |-> "a.png", Size |-> 10],
     [Id |-> "f2", Filename |-> "b.pdf", Size |-> 7]}

\* error values: msg = "" is nil; wraps is the error reached by errors.Unwrap
NilErr == [msg |-> "", wraps |-> ""]

\* fmt.Errorf(text) without %w
Errorf(text) == [msg |-> text, wraps |-> ""]

\* fmt.Errorf with %v in place of %w: the cause is not wrapped
Wrap_NoCause(prefix, err) == [msg |-> prefix \o ": " \o err, wraps |-> ""]

\* fmt.Errorf(prefix + ": %w", err)
Wrap(prefix, err) == [msg |-> prefix \o ": " \o err, wraps |-> err]

\* the remote service was not called
NoReply == [err |-> "", resp |-> <<>>]

\* replies of the four gRPC methods: an error, or a response
BatchReplies ==
    {[err |-> e, resp |-> <<>>] : e \in RemoteErrors}
    \cup {[err |-> "", resp |-> <<[Results |-> m]>>] : m \in WireResultMaps}

GetFileReplies ==
    {[err |-> e, resp |-> <<>>] : e \in RemoteErrors}
    \cup {[err |-> "", resp |-> <<fo>>] : fo \in FileObjects}

GetDownloadUrlReplies ==
    {[err |-> e, resp |-> <<>>] : e \in RemoteErrors}
    \cup {[err |-> "", resp |-> <<[DownloadUrl |-> u, VariantUrls |-> v, Filename |-> "a.png"]>>] :
            u \in {"u1", "cdn"}, v \in {NilMap, <<("thumb" :> "u1t")>>}}

ListFilesReplies ==
    {[err |-> e, resp |-> <<>>] : e \in RemoteErrors}
    \cup {[err |-> "", resp |-> <<[Files |-> fs, Total |-> t]>>] :
            fs \in SeqsUpTo(FileObjects, 1), t \in {0, 1, 250}}

\* time.Duration and deadlines are counted in seconds from the start of a call
\* a context without deadline, a context that is never cancelled
NoDeadline == 99

Never == 99

\* 10 * time.Second, the timeout NewClient substitutes
TenSeconds == 10

\* contexts a caller passes: background, with a deadline, cancelled by the caller
CallerCtxs ==
    {[deadline |-> NoDeadline, cancelAt |-> Never],
     [deadline |-> 3, cancelAt |-> Never],
     [deadline |-> NoDeadline, cancelAt |-> 2]}

\* times the remote side can take to answer
ReplyTimes == {1, 7}

IntMin(a, b) == IF a <= b THEN a ELSE b

\* WithTimeout on context.Background(): the parent's deadline is not inherited
DerivedDeadline_FromBackground(parentDeadline, now, timeout) == now + timeout

\* deadline of context.WithTimeout(parent, timeout) created at time now
DerivedDeadline(parentDeadline, now, timeout) ==
    IntMin(parentDeadline, now + timeout)

\* time at which a context derived from ctx with deadline d is done
DoneAt(ctx, d) == IntMin(ctx.cancelAt, d)

\* ctx.Err() of the derived context once it is done
CtxErr(ctx, d) ==
    IF ctx.cancelAt <= d THEN "context canceled" ELSE "context deadline exceeded"

\* what the gRPC stub returns: the remote reply if it arrives while the
\* context is live, the context's error if the context is done first
Answers(replies, ctx, d, t) ==
    {r \in replies : t <= DoneAt(ctx, d)}
    \cup {[err |-> CtxErr(ctx, d), resp |-> <<>>] : x \in {u \in {t} : u >= DoneAt(ctx, d)}}

\* the zero value of every return slot of the four operations
ZeroRet == [err |-> NilErr, results |-> NilMap, file |-> <<>>, url |-> "",
            variants |-> NilMap, files |-> <<>>, total |-> 0]

ZeroArgs == [fileIDs |-> <<>>, fileID |-> "", page |-> 0, pageSize |-> 0]

\* "set defaults" of BatchGetFileUrlsWithOptions: the request after it
ApplyDefaults(req) ==
    [req EXCEPT !.ExpiresIn = IF @ <= 0 THEN 3600 ELSE @]

\* the v1.BatchGetFileUrlsRequest built from the caller's request
WireBatchRequest(req) ==
    [FileIds |-> req.FileIDs, IncludeVariants |-> req.IncludeVariants,
     ExpiresIn |-> req.ExpiresIn]

\* the FileUrlInfo built without the Error field
ToFileUrlInfo_NoError(info) ==
    [URL |-> info.Url, VariantUrls |-> info.VariantUrls, IsPublic |-> info.IsPublic,
     ExpiresIn |-> info.ExpiresIn, Filename |-> info.Filename, Size |-> info.Size,
     ContentType |-> info.ContentType, Success |-> info.Success, Error |-> ""]

\* the FileUrlInfo built with Filename and ContentType taken from each other
ToFileUrlInfo_SwapNames(info) ==
    [URL |-> info.Url, VariantUrls |-> info.VariantUrls, IsPublic |-> info.IsPublic,
     ExpiresIn |-> info.ExpiresIn, Filename |-> info.ContentType, Size |-> info.Size,
     ContentType |-> info.Filename, Success |-> info.Success, Error |-> info.Error]

\* the FileUrlInfo built from one v1.FileUrlInfo
ToFileUrlInfo(info) ==
    [URL |-> info.Url, VariantUrls |-> info.VariantUrls, IsPublic |-> info.IsPublic,
     ExpiresIn |-> info.ExpiresIn, Filename |-> info.Filename, Size |-> info.Size,
     ContentType |-> info.ContentType, Success |-> info.Success, Error |-> info.Error]

\* the results map built from the successful items only
ConvertResults_SuccessOnly(wire) ==
    [fileID \in {k \in DOMAIN wire : wire[k].Success} |-> ToFileUrlInfo(wire[fileID])]

\* "convert response": the results map built from resp.Results
ConvertResults(wire) == [fileID \in DOMAIN wire |-> ToFileUrlInfo(wire[fileID])]

\* the early return taken for a nil request only
BatchShortCircuit_NilOnly(req) == req = <<>>

\* the early return of BatchGetFileUrlsWithOptions
BatchShortCircuit(req) == req = <<>> \/ Len(req[1].FileIDs) = 0

\* the request BatchGetFileUrls hands to BatchGetFileUrlsWithOptions
DefaultBatchRequest(fileIDs) ==
    [FileIDs |-> fileIDs, IncludeVariants |-> TRUE, ExpiresIn |-> 3600]

\* return values that turn a failed item into an error of the whole call
BatchReturn_FailOnItem(reply) ==
    IF reply.err # ""
    THEN [ZeroRet EXCEPT !.err = Wrap("batch get file urls failed", reply.err)]
    ELSE IF \E k \in DOMAIN reply.resp[1].Results : ~reply.resp[1].Results[k].Success
    THEN [ZeroRet EXCEPT !.err = Errorf("batch get file urls failed: item failed")]
    ELSE [ZeroRet EXCEPT !.results = <<ConvertResults(reply.resp[1].Results)>>]

\* return values of BatchGetFileUrlsWithOptions for the reply of the gRPC call
BatchReturn(reply) ==
    IF reply.err # ""
    THEN [ZeroRet EXCEPT !.err = Wrap("batch get file urls failed", reply.err)]
    ELSE [ZeroRet EXCEPT !.results = <<ConvertResults(reply.resp[1].Results)>>]

\* return values of GetFile that keep an empty object next to the error
GetFileReturn_ObjectOnError(reply) ==
    IF reply.err # ""
    THEN [ZeroRet EXCEPT !.err = Wrap("get file failed", reply.err),
                         !.file = <<[Id |-> "", Filename |-> "", Size |-> 0]>>]
    ELSE [ZeroRet EXCEPT !.file = reply.resp]

\* return values of GetFile for the reply of the gRPC call
GetFileReturn(reply) ==
    IF reply.err # ""
    THEN [ZeroRet EXCEPT !.err = Wrap("get file failed", reply.err)]
    ELSE [ZeroRet EXCEPT !.file = reply.resp]

\* return values of GetDownloadUrl for the reply of the gRPC call
GetDownloadUrlReturn(reply) ==
    IF reply.err # ""
    THEN [ZeroRet EXCEPT !.err = Wrap("get download url failed", reply.err)]
    ELSE [ZeroRet EXCEPT !.url = reply.resp[1].DownloadUrl,
                         !.variants = reply.resp[1].VariantUrls]

\* return values of ListFiles for the reply of the gRPC call
ListFilesReturn(reply) ==
    IF reply.err # ""
    THEN [ZeroRet EXCEPT !.err = Wrap("list files failed", reply.err)]
    ELSE [ZeroRet EXCEPT !.files = reply.resp[1].Files,
                         !.total = reply.resp[1].Total]

\* a return before context.WithTimeout: nothing derived, nothing sent
ReturnEarly ==
    /\ callCtx' = <<>>
    /\ replyAt' = 0
    /\ sent' = <<>>
    /\ remote' = NoReply

\* timeoutCtx, cancel := context.WithTimeout(ctx, c.config.Timeout); defer
\* cancel(); the one gRPC call under timeoutCtx, its reply left in remote'
CallRemote(ctx, replies) ==
    LET d == DerivedDeadline(ctx.deadline, 0, client[1].config.Timeout)
    IN  /\ callCtx' = <<[deadline |-> d, released |-> TRUE]>>
        /\ \E t \in ReplyTimes :
              \E reply \in Answers(replies, ctx, d, t) :
                 /\ replyAt' = t
                 /\ remote' = reply

\* body of BatchGetFileUrlsWithOptions on the request object req
BatchBody(ctx, req) ==
    IF BatchShortCircuit(req)
    THEN /\ reqOut' = req
         /\ ReturnEarly
         /\ ret' = [ZeroRet EXCEPT !.results = <<EmptyMap>>]
    ELSE LET r == ApplyDefaults(req[1])
         IN  /\ reqOut' = <<r>>
             /\ sent' = <<WireBatchRequest(r)>>
             /\ CallRemote(ctx, BatchReplies)
             /\ ret' = BatchReturn(remote')

\* Client.BatchGetFileUrls(ctx, fileIDs)
BatchGetFileUrls ==
    /\ resOp = "none"
    /\ \E ctx \in CallerCtxs, fileIDs \in FileIDLists :
          /\ resOp' = "BatchGetFileUrls"
          /\ callerCtx' = ctx
          /\ argIn' = [ZeroArgs EXCEPT !.fileIDs = fileIDs]
          /\ reqIn' = <<DefaultBatchRequest(fileIDs)>>
          /\ BatchBody(ctx, <<DefaultBatchRequest(fileIDs)>>)
    /\ UNCHANGED <<regVars, cliVars, mailVars, authVars>>

\* Client.BatchGetFileUrlsWithOptions(ctx, req)
BatchGetFileUrlsWithOptions ==
    /\ resOp = "none"
    /\ \E ctx \in CallerCtxs,
          req \in {<<>>} \cup {<<[FileIDs |-> ids, IncludeVariants |-> iv, ExpiresIn |-> ex]>> :
                                  ids \in FileIDLists, iv \in BOOLEAN, ex \in ExpiresInArgs} :
          /\ resOp' = "BatchGetFileUrlsWithOptions"
          /\ callerCtx' = ctx
          /\ argIn' = ZeroArgs
          /\ reqIn' = req
          /\ BatchBody(ctx, req)
    /\ UNCHANGED <<regVars, cliVars, mailVars, authVars>>

\* Client.GetFile(ctx, fileID)
GetFile ==
    /\ resOp = "none"
    /\ \E ctx \in CallerCtxs, fileID \in {""} \cup FileIDPool :
          /\ resOp' = "GetFile"
          /\ callerCtx' = ctx
          /\ argIn' = [ZeroArgs EXCEPT !.fileID = fileID]
          /\ IF fileID = ""
             THEN /\ ReturnEarly
                  /\ ret' = [ZeroRet EXCEPT !.err = Errorf("file id must not be empty")]
             ELSE /\ sent' = <<[FileId |-> fileID]>>
                  /\ CallRemote(ctx, GetFileReplies)
                  /\ ret' = GetFileReturn(remote')
    /\ UNCHANGED <<reqIn, reqOut>>
    /\ UNCHANGED <<regVars, cliVars, mailVars, authVars>>

\* Client.GetDownloadUrl(ctx, fileID)
GetDownloadUrl ==
    /\ resOp = "none"
    /\ \E ctx \in CallerCtxs, fileID \in {""} \cup FileIDPool :
          /\ resOp' = "GetDownloadUrl"
          /\ callerCtx' = ctx
          /\ argIn' = [ZeroArgs EXCEPT !.fileID = fileID]
          /\ IF fileID = ""
             THEN /\ ReturnEarly
                  /\ ret' = [ZeroRet EXCEPT !.err = Errorf("file id must not be empty")]
             ELSE /\ sent' = <<[FileId |-> fileID, ExpiresIn |-> 3600]>>
                  /\ CallRemote(ctx, GetDownloadUrlReplies)
                  /\ ret' = GetDownloadUrlReturn(remote')
    /\ UNCHANGED <<reqIn, reqOut>>
    /\ UNCHANGED <<regVars, cliVars, mailVars, authVars>>

\* Client.ListFiles(ctx, page, pageSize)
ListFiles ==
    /\ resOp = "none"
    /\ \E ctx \in CallerCtxs, page \in {-1, 0, 1, 2}, pageSize \in {0, 20, 101} :
          /\ resOp' = "ListFiles"
          /\ callerCtx' = ctx
          /\ argIn' = [ZeroArgs EXCEPT !.page = page, !.pageSize = pageSize]
          /\ sent' = <<[Page |-> IF page <= 0 THEN 1 ELSE page,
                        PageSize |-> IF pageSize <= 0 THEN 20 ELSE pageSize]>>
          /\ CallRemote(ctx, ListFilesReplies)
          /\ ret' = ListFilesReturn(remote')
    /\ UNCHANGED <<reqIn, reqOut>>
    /\ UNCHANGED <<regVars, cliVars, mailVars, authVars>>

ResNext ==
    \/ BatchGetFileUrls
    \/ BatchGetFileUrlsWithOptions
    \/ GetFile
    \/ GetDownloadUrl
    \/ ListFiles

(***************************************************************************)
(* pkg/resource/client.go                                                  *)
(***************************************************************************)
\* *Config values a caller passes to a constructor; <<>> is nil
Configs ==
    {[Address |-> a, Timeout |-> t] :
        a \in {"", "resource-service:9000", "discovery:///resource-service"},
        t \in {-1, 0, 5, 30}}

\* what DefaultConfig() may return; its source is not part of these files, so
\* no value is excluded
DefaultConfigs == Configs

\* registry.Discovery arguments; "" is nil
Discoveries == {"", "consul"}

\* errors of kratosGrpc.DialInsecure and of conn.Close; "" is nil
DialErrors == {"", "dial: connection refused"}

CloseErrors == {"", "close: already closing"}

\* "validate config" that accepts an empty Address
AddressMissing_Never(config) == FALSE

\* "validate config": the Address test of both constructors
AddressMissing(config) == config.Address = ""

\* the Timeout both constructors store before dialing
EffectiveTimeout(timeout) == IF timeout <= 0 THEN TenSeconds ELSE timeout

\* the constructor body shared by NewClient and NewClientWithDiscovery from
\* the Address test on, for the non-nil config cfg
ConstructFrom(cfg) ==
    IF AddressMissing(cfg)
    THEN /\ cfgObj' = <<cfg>>
         /\ client' = <<>>
         /\ newErr' = Errorf("resource service address must not be empty")
         /\ dials' = 0
    ELSE LET c == [cfg EXCEPT !.Timeout = EffectiveTimeout(@)]
         IN  /\ cfgObj' = <<c>>
             /\ dials' = 1
             /\ \E dialErr \in DialErrors :
                   IF dialErr # ""
                   THEN /\ client' = <<>>
                        /\ newErr' = Wrap("create grpc connection failed", dialErr)
                   ELSE /\ client' = <<[config |-> c, conn |-> "open"]>>
                        /\ newErr' = NilErr

\* NewClient(config)
NewClient ==
    /\ newOp = "none"
    /\ \E config \in {<<>>} \cup {<<c>> : c \in Configs} :
          /\ newOp' = "NewClient"
          /\ newArgs' = [config |-> config, discovery |-> ""]
          /\ \E cfg \in IF config = <<>> THEN DefaultConfigs ELSE {config[1]} :
                ConstructFrom(cfg)
    /\ UNCHANGED closeErr
    /\ UNCHANGED <<regVars, resVars, mailVars, authVars>>

\* NewClientWithDiscovery(config, discovery)
NewClientWithDiscovery ==
    /\ newOp = "none"
    /\ \E config \in {<<>>} \cup {<<c>> : c \in Configs}, discovery \in Discoveries :
          /\ newOp' = "NewClientWithDiscovery"
          /\ newArgs' = [config |-> config, discovery |-> discovery]
          /\ \E cfg \in IF config = <<>> THEN DefaultConfigs ELSE {config[1]} :
                IF discovery = ""
                THEN /\ cfgObj' = <<cfg>>
                     /\ client' = <<>>
                     /\ newErr' = Errorf("discovery must not be nil")
                     /\ dials' = 0
                ELSE ConstructFrom(cfg)
    /\ UNCHANGED closeErr
    /\ UNCHANGED <<regVars, resVars, mailVars, authVars>>

\* Client.Close()
Close ==
    /\ client # <<>>
    /\ closeErr = "unset"
    /\ \E e \in CloseErrors :
          /\ closeErr' = e
          /\ client' = <<[client[1] EXCEPT !.conn = "closed"]>>
    /\ UNCHANGED <<newOp, newArgs, cfgObj, newErr, dials>>
    /\ UNCHANGED <<regVars, resVars, mailVars, authVars>>

CliNext == NewClient \/ NewClientWithDiscovery \/ Close

(***************************************************************************)
(* pkg/email: Service, Sender, TemplateManager                             *)
(***************************************************************************)
\* latest time the model follows a send to
MaxTime == 4

\* SMTP.Timeout values of the Sender's config
SmtpTimeouts == {2}

\* time.Now().Year() and time.Now().Format("2006-01-02 15:04:05")
CurrentYear == 2026

InviteTimeNow == "2026-11-05 10:00:00"

\* *TenantActivationEmailRequest values; a required field is empty or set
ActivationRequests ==
    [To : {"", "u@x.io"}, UserName : {"", "ann"}, TenantName : {"", "acme"},
     ActivationLink : {"", "https://x/a"}, ExpireTime : {"", "48h"}]

\* *InvitationEmailRequest values
InvitationRequests ==
    [To : {"", "u@x.io"}, UserName : {"", "ann"}, TenantName : {"", "acme"},
     DepartmentName : {"", "ops"}, RoleName : {"", "admin"}, InviterName : {"bob"},
     InviteTime : {"", "yesterday"}, AcceptLink : {"", "https://x/y"},
     DeclineLink : {"https://x/n"}, ExpireTime : {"", "48h"}]

\* *PasswordResetEmailRequest values
PasswordResetRequests ==
    [To : {"", "u@x.io"}, UserName : {"", "ann"}, ResetLink : {"", "https://x/r"},
     ExpireTime : {"", "48h"}]

\* the three template constants: the fields their "subject" and "body"
\* sub-templates reference, in order of occurrence (literal text left out)
Templates ==
    [tenant_activation |->
        [subject |-> <<"TenantName">>,
         body |-> <<"TenantName", "UserName", "TenantName", "ActivationLink",
                    "ActivationLink", "ExpireTime", "CurrentYear", "TenantName">>],
     invitation |->
        [subject |-> <<"TenantName", "DepartmentName">>,
         body |-> <<"UserName", "InviterName", "TenantName", "DepartmentName",
                    "TenantName", "DepartmentName", "RoleName", "InviterName",
                    "InviteTime", "AcceptLink", "AcceptLink", "ExpireTime",
                    "CurrentYear", "TenantName">>],
     password_reset |->
        [subject |-> <<"TenantName">>,
         body |-> <<"UserName", "ResetLink", "ResetLink", "ExpireTime",
                    "CurrentYear", "TenantName">>]]

\* what a template prints for a key the data map does not have
NoValue == "<no value>"

\* Template.Execute(data) of one sub-template: the value printed for each
\* field reference
Execute(fields, data) ==
    [i \in 1..Len(fields) |->
        IF fields[i] \in DOMAIN data THEN data[fields[i]] ELSE NoValue]

\* initTemplates: no panic when every template has a "subject" and a "body"
initTemplates ==
    \A emailType \in DOMAIN Templates :
        {"subject", "body"} \subseteq DOMAIN Templates[emailType]

\* TemplateManager.RenderTemplate(emailType, data)
RenderTemplate(emailType, data) ==
    [subject |-> Execute(Templates[emailType].subject, data),
     body |-> Execute(Templates[emailType].body, data)]

\* the check of the required fields that leaves out the last one
RequiredEmpty_AllButLast(req, required) ==
    \E i \in 1..(Len(required) - 1) : req[required[i]] = ""

\* some required field of the request is empty
RequiredEmpty(req, required) ==
    \E i \in 1..Len(required) : req[required[i]] = ""

\* the optional value, or its default when it is empty
OrDefault(val, default) == IF val # "" THEN val ELSE default

\* data map of Sender.SendTenantActivationEmail
ActivationData(req) ==
    [UserName |-> req.UserName, TenantName |-> req.TenantName,
     ActivationLink |-> req.ActivationLink,
     ExpireTime |-> OrDefault(req.ExpireTime, "24h"),
     CurrentYear |-> CurrentYear]

\* data map of Sender.SendInvitationEmail
InvitationData(req) ==
    [UserName |-> req.UserName, TenantName |-> req.TenantName,
     DepartmentName |-> req.DepartmentName, RoleName |-> req.RoleName,
     InviterName |-> req.InviterName,
     InviteTime |-> OrDefault(req.InviteTime, InviteTimeNow),
     AcceptLink |-> req.AcceptLink, DeclineLink |-> req.DeclineLink,
     ExpireTime |-> OrDefault(req.ExpireTime, "7d"),
     CurrentYear |-> CurrentYear]

\* data map of Sender.SendPasswordResetEmail
PasswordResetData(req) ==
    [UserName |-> req.UserName, ResetLink |-> req.ResetLink,
     ExpireTime |-> OrDefault(req.ExpireTime, "1h"),
     CurrentYear |-> CurrentYear]

\* the steps of sendWithTLS in program order, and its two deferred calls
SmtpSteps == <<"Dial", "NewClient", "Auth", "Mail", "Rcpt", "Data", "Write", "Close">>

DeferredSteps == {"Quit", "ConnClose"}

\* message of the error sendWithTLS returns when the step fails
StepMessage(step) ==
    CASE step = "Dial" -> "failed to connect to SMTP server"
      [] step = "NewClient" -> "failed to create SMTP client"
      [] step = "Auth" -> "SMTP authentication failed"
      [] step = "Mail" -> "failed to set sender"
      [] step = "Rcpt" -> "failed to set recipient u@x.io"
      [] step = "Data" -> "failed to get data writer"
      [] step = "Write" -> "failed to write message"
      [] step = "Close" -> "failed to close data writer"

\* errors a step can end with ("" is none)
StepErrors == {"", "EOF"}

\* control flow of sendWithTLS that goes on to DATA after a refused recipient
AfterStep_IgnoreRcpt(step, ok) ==
    CASE step = "Dial" -> IF ok THEN "NewClient" ELSE "returned"
      [] step = "NewClient" -> IF ok THEN "Auth" ELSE "ConnClose"
      [] step = "Auth" -> IF ok THEN "Mail" ELSE "Quit"
      [] step = "Mail" -> IF ok THEN "Rcpt" ELSE "Quit"
      [] step = "Rcpt" -> "Data"
      [] step = "Data" -> IF ok THEN "Write" ELSE "Quit"
      [] step = "Write" -> IF ok THEN "Close" ELSE "Quit"
      [] step = "Close" -> "Quit"
      [] step = "Quit" -> "ConnClose"
      [] step = "ConnClose" -> "returned"

\* control flow of sendWithTLS: the position after a step with outcome ok;
\* a failed step returns, which runs the deferred calls registered so far
\* (client.Quit, then conn.Close)
AfterStep(step, ok) ==
    CASE step = "Dial" -> IF ok THEN "NewClient" ELSE "returned"
      [] step = "NewClient" -> IF ok THEN "Auth" ELSE "ConnClose"
      [] step = "Auth" -> IF ok THEN "Mail" ELSE "Quit"
      [] step = "Mail" -> IF ok THEN "Rcpt" ELSE "Quit"
      [] step = "Rcpt" -> IF ok THEN "Data" ELSE "Quit"
      [] step = "Data" -> IF ok THEN "Write" ELSE "Quit"
      [] step = "Write" -> IF ok THEN "Close" ELSE "Quit"
      [] step = "Close" -> "Quit"
      [] step = "Quit" -> "ConnClose"
      [] step = "ConnClose" -> "returned"

\* the Service operation returns err before it reaches the Sender
Reject(err) ==
    /\ mailErr' = err
    /\ mailPc' = "returned"
    /\ UNCHANGED <<mailCtx, mailData, renders, rendered, smtpLog>>

\* the Sender method: NewTemplateManager, the data map, RenderTemplate, then
\* SendEmail up to its tls.Dial: the context derived and never looked at again
Send(emailType, data, ctx) ==
    /\ initTemplates
    /\ mailData' = <<data>>
    /\ renders' = 1
    /\ rendered' = <<RenderTemplate(emailType, data)>>
    /\ mailCtx' = <<[deadline |-> DerivedDeadline(ctx.deadline, elapsed, smtpTimeout),
                     released |-> FALSE]>>
    /\ mailPc' = "Dial"
    /\ UNCHANGED <<smtpLog, mailErr>>

\* a Service operation called with ctx and req
ServiceOp(op, emailType, req, ctx, required, data) ==
    /\ mailOp = "none"
    /\ mailOp' = op
    /\ mailReq' = req
    /\ mailCallerCtx' = ctx
    /\ IF req = <<>> THEN Reject(Errorf("request cannot be nil"))
       ELSE IF RequiredEmpty(req[1], required)
            THEN Reject(Errorf("required fields cannot be empty"))
            ELSE Send(emailType, data, ctx)
    /\ UNCHANGED <<smtpTimeout, elapsed>>
    /\ UNCHANGED <<regVars, resVars, cliVars, authVars>>

\* Service.SendTenantActivationEmail(ctx, req)
SendTenantActivationEmail ==
    \E ctx \in CallerCtxs, req \in {<<>>} \cup {<<r>> : r \in ActivationRequests} :
        ServiceOp("SendTenantActivationEmail", "tenant_activation", req, ctx,
                  <<"To", "UserName", "TenantName", "ActivationLink">>,
                  IF req = <<>> THEN EmptyMap ELSE ActivationData(req[1]))

\* Service.SendInvitationEmail(ctx, req)
SendInvitationEmail ==
    \E ctx \in CallerCtxs, req \in {<<>>} \cup {<<r>> : r \in InvitationRequests} :
        ServiceOp("SendInvitationEmail", "invitation", req, ctx,
                  <<"To", "UserName", "TenantName", "DepartmentName", "AcceptLink">>,
                  IF req = <<>> THEN EmptyMap ELSE InvitationData(req[1]))

\* Service.SendPasswordResetEmail(ctx, req)
SendPasswordResetEmail ==
    \E ctx \in CallerCtxs, req \in {<<>>} \cup {<<r>> : r \in PasswordResetRequests} :
        ServiceOp("SendPasswordResetEmail", "password_reset", req, ctx,
                  <<"To", "UserName", "ResetLink">>,
                  IF req = <<>> THEN EmptyMap ELSE PasswordResetData(req[1]))

\* one step of sendWithTLS, or one of its deferred calls, ends with stepErr;
\* the last one returns from sendWithTLS and SendEmail, whose deferred cancel
\* releases the context
SmtpStep(step) ==
    /\ mailPc = step
    /\ \E stepErr \in StepErrors :
          /\ smtpLog' = Append(smtpLog, [step |-> step, ok |-> stepErr = ""])
          /\ mailPc' = AfterStep(step, stepErr = "")
          /\ mailErr' = IF stepErr # "" /\ step \notin DeferredSteps /\ mailErr = NilErr
                        THEN Wrap("failed to send email",
                                  Wrap(StepMessage(step), stepErr).msg)
                        ELSE mailErr
          /\ mailCtx' = IF AfterStep(step, stepErr = "") = "returned"
                        THEN <<[mailCtx[1] EXCEPT !.released = TRUE]>>
                        ELSE mailCtx
    /\ UNCHANGED <<mailOp, mailReq, smtpTimeout, mailCallerCtx, mailData, renders,
                   rendered, elapsed>>
    /\ UNCHANGED <<regVars, resVars, cliVars, authVars>>

TlsDial == SmtpStep("Dial")

SmtpNewClient == SmtpStep("NewClient")

SmtpAuth == SmtpStep("Auth")

SmtpMail == SmtpStep("Mail")

SmtpRcpt == SmtpStep("Rcpt")

SmtpData == SmtpStep("Data")

WriterWrite == SmtpStep("Write")

WriterClose == SmtpStep("Close")

ClientQuit == SmtpStep("Quit")

ConnClose == SmtpStep("ConnClose")

\* time passes while the call waits for the SMTP server in a blocking step
Wait ==
    /\ mailPc \notin {"idle", "returned"}
    /\ elapsed < MaxTime
    /\ elapsed' = elapsed + 1
    /\ UNCHANGED <<mailOp, mailReq, smtpTimeout, mailCallerCtx, mailCtx, mailData,
                   renders, rendered, mailPc, smtpLog, mailErr>>
    /\ UNCHANGED <<regVars, resVars, cliVars, authVars>>

MailNext ==
    \/ SendTenantActivationEmail \/ SendInvitationEmail \/ SendPasswordResetEmail
    \/ TlsDial \/ SmtpNewClient \/ SmtpAuth \/ SmtpMail \/ SmtpRcpt \/ SmtpData
    \/ WriterWrite \/ WriterClose \/ ClientQuit \/ ConnClose
    \/ Wait

(***************************************************************************)
(* pkg/middleware: auth.Server and ExtractClaims                           *)
(***************************************************************************)
\* 2^16: a uint64 n is kept as [hi, lo] with n = hi * 2^16 + lo, so that a
\* uint32 is exactly the values with hi < 2^16
Word == 65536

\* the widest hi the wide parse accepts
WideWord == 1073741824

\* header values of a request, per key, as the list of values sent
UserIDHeaders ==
    {<<>>, <<"">>, <<"7">>, <<"007">>, <<"4294967295">>, <<"4294967296">>,
     <<"99999999999">>, <<"-1">>, <<"12a">>, <<"7", "x">>, <<"x", "7">>}

TenantIDHeaders == {<<>>, <<"9">>, <<"4294967296">>, <<"x">>}

RegionNameHeaders == {<<>>, <<"cn">>}

\* what the wrapped handler returns
HandlerReturns ==
    {[reply |-> "reply", err |-> ""], [reply |-> "", err |-> "handler failed"]}

NoReturn == [reply |-> "", err |-> ""]

\* requests: transport (Server) or incoming metadata (ExtractClaims) present
Requests ==
    [present : BOOLEAN, user : UserIDHeaders, tenant : TenantIDHeaders,
     region : RegionNameHeaders, handler : HandlerReturns]

NoRequest ==
    [present |-> FALSE, user |-> <<>>, tenant |-> <<>>, region |-> <<>>,
     handler |-> NoReturn]

\* Header.Get(key): the first value, "" when there is none
HeaderGet(vals) == IF Len(vals) > 0 THEN vals[1] ELSE ""

\* value of a decimal digit character, -1 for any other character
Digit(c) ==
    IF \E d \in 0..9 : SubSeq("0123456789", d + 1, d + 1) = c
    THEN CHOOSE d \in 0..9 : SubSeq("0123456789", d + 1, d + 1) = c
    ELSE -1

\* the digit loop of strconv.ParseUint(s, 10, bitSize) from position i with
\* the value n read so far; maxHi is 2^(bitSize - 16)
RECURSIVE ParseLoop(_, _, _, _)
ParseLoop(s, i, n, maxHi) ==
    IF i > Len(s) THEN [err |-> "", val |-> n]
    ELSE LET d == Digit(SubSeq(s, i, i))
             lo10 == n.lo * 10 + d
             hi10 == n.hi * 10 + lo10 \div Word
         IN  IF d < 0 THEN [err |-> "invalid syntax", val |-> [hi |-> 0, lo |-> 0]]
             ELSE IF hi10 >= maxHi
                  THEN [err |-> "value out of range",
                        val |-> [hi |-> maxHi - 1, lo |-> Word - 1]]
                  ELSE ParseLoop(s, i + 1, [hi |-> hi10, lo |-> lo10 % Word], maxHi)

\* ParseUint with a bit size above 32
ParseUint_Wide(s) ==
    IF s = "" THEN [err |-> "invalid syntax", val |-> [hi |-> 0, lo |-> 0]]
    ELSE ParseLoop(s, 1, [hi |-> 0, lo |-> 0], WideWord)

\* strconv.ParseUint(s, 10, 32)
ParseUint(s) ==
    IF s = "" THEN [err |-> "invalid syntax", val |-> [hi |-> 0, lo |-> 0]]
    ELSE ParseLoop(s, 1, [hi |-> 0, lo |-> 0], Word)

\* the conversion uint32(n) of a uint64
Uint32(n) == [hi |-> n.hi % Word, lo |-> n.lo]

Zero32 == [hi |-> 0, lo |-> 0]

\* Server that never asks for X-Tenant-ID
ServerReject_NoTenant(in, needTenant) ==
    IF ~in.present THEN "SYSTEM_ERROR"
    ELSE IF HeaderGet(in.user) = "" THEN "X-User-ID header is missing"
    ELSE IF ParseUint(HeaderGet(in.user)).err # "" THEN "Invalid X-User-ID format"
    ELSE ""

\* the error Server returns before it calls the handler, "" when it calls it
ServerReject(in, needTenant) ==
    IF ~in.present THEN "SYSTEM_ERROR"
    ELSE IF HeaderGet(in.user) = "" THEN "X-User-ID header is missing"
    ELSE IF ParseUint(HeaderGet(in.user)).err # "" THEN "Invalid X-User-ID format"
    ELSE IF needTenant /\ HeaderGet(in.tenant) = "" THEN "TENANT_MISSING"
    ELSE IF needTenant /\ ParseUint(HeaderGet(in.tenant)).err # "" THEN "TENANT_INVALID"
    ELSE ""

\* the claims Server puts into the handler's context
ServerClaims(in, needTenant) ==
    [UserID |-> Uint32(ParseUint(HeaderGet(in.user)).val),
     TenantID |-> IF needTenant THEN Uint32(ParseUint(HeaderGet(in.tenant)).val)
                  ELSE Zero32,
     RegionName |-> HeaderGet(in.region)]

\* ExtractClaims that attaches claims when the tenant alone parses
ExtractedClaims_AnyField(in) ==
    IF in.present /\ (\/ (Len(in.user) > 0 /\ ParseUint(in.user[1]).err = "")
                      \/ (Len(in.tenant) > 0 /\ ParseUint(in.tenant[1]).err = ""))
    THEN <<[UserID |-> IF Len(in.user) > 0 /\ ParseUint(in.user[1]).err = ""
                       THEN Uint32(ParseUint(in.user[1]).val) ELSE Zero32,
            TenantID |-> IF Len(in.tenant) > 0 /\ ParseUint(in.tenant[1]).err = ""
                         THEN Uint32(ParseUint(in.tenant[1]).val) ELSE Zero32,
            RegionName |-> HeaderGet(in.region)]>>
    ELSE <<>>

\* the claims ExtractClaims attaches to the context, <<>> when hasData stays false
ExtractedClaims(in) ==
    IF in.present /\ Len(in.user) > 0 /\ ParseUint(in.user[1]).err = ""
    THEN <<[UserID |-> Uint32(ParseUint(in.user[1]).val),
            TenantID |-> IF Len(in.tenant) > 0 /\ ParseUint(in.tenant[1]).err = ""
                         THEN Uint32(ParseUint(in.tenant[1]).val) ELSE Zero32,
            RegionName |-> HeaderGet(in.region)]>>
    ELSE <<>>

\* the middleware calls handler(ctx, req) with the given claims in ctx and
\* returns what the handler returns
CallHandler(in, claims) ==
    /\ handlerCalls' = handlerCalls + 1
    /\ handlerCtx' = <<[claims |-> claims]>>
    /\ handlerRet' = in.handler
    /\ authRet' = in.handler

\* the handler returned by auth.Server(needTenant)(handler), called once
Server ==
    /\ authOp = "none"
    /\ \E in \in Requests, needTenant \in BOOLEAN :
          /\ authOp' = IF needTenant THEN "Server(true)" ELSE "Server(false)"
          /\ authIn' = in
          /\ IF ServerReject(in, needTenant) # ""
             THEN /\ authRet' = [reply |-> "", err |-> ServerReject(in, needTenant)]
                  /\ UNCHANGED <<handlerCalls, handlerCtx, handlerRet>>
             ELSE CallHandler(in, <<ServerClaims(in, needTenant)>>)
    /\ UNCHANGED <<regVars, resVars, cliVars, mailVars>>

\* the handler returned by ExtractClaims()(handler), called once
ExtractClaims ==
    /\ authOp = "none"
    /\ \E in \in Requests :
          /\ authOp' = "ExtractClaims"
          /\ authIn' = in
          /\ CallHandler(in, ExtractedClaims(in))
    /\ UNCHANGED <<regVars, resVars, cliVars, mailVars>>

AuthNext == Server \/ ExtractClaims

(***************************************************************************)
(* pkg/common/registry.go: operations                                      *)
(***************************************************************************)
\* NewConsulRegistrar: host from SERVICE_HOST or getLocalIP, portMap from the
\* two port-map variables, HTTP first
NewConsulRegistrar ==
    /\ ~constructed
    /\ \E ip \in LocalIPs :
          serviceHost' = IF env.SERVICE_HOST = "" THEN ip ELSE env.SERVICE_HOST
    /\ portMap' = parseEnvToMap(env.GRPC_PORT_MAP,
                                parseEnvToMap(env.HTTP_PORT_MAP, EmptyMap))
    /\ constructed' = TRUE
    /\ UNCHANGED <<env, inEndpoints, svcEndpoints, httpEndpoints, otherEndpoints,
                   registered, innerCalls, innerRet, lastOp, regErr>>
    /\ UNCHANGED <<resVars, cliVars, mailVars, authVars>>

\* Register that logs the inner registrar's error and returns nil
RegisterOn_DropError(eps, innerErr) ==
    /\ inEndpoints' = eps
    /\ lastOp' = "Register"
    /\ innerCalls' = 1
    /\ innerRet' = innerErr
    /\ regErr' = ""
    /\ IF serviceHost = ""
       THEN /\ svcEndpoints' = eps
            /\ registered' = eps
            /\ httpEndpoints' = <<>>
            /\ otherEndpoints' = <<>>
       ELSE LET lists == RegisterLoop(eps, serviceHost, portMap, <<>>, <<>>)
            IN  /\ httpEndpoints' = lists[1]
                /\ otherEndpoints' = lists[2]
                /\ svcEndpoints' = JoinPartitions(lists[1], lists[2])
                /\ registered' = JoinPartitions(lists[1], lists[2])
    /\ UNCHANGED <<env, constructed, serviceHost, portMap>>
    /\ UNCHANGED <<resVars, cliVars, mailVars, authVars>>

\* customRegistrar.Register on a service instance whose Endpoints are eps
RegisterOn(eps, innerErr) ==
    /\ inEndpoints' = eps
    /\ lastOp' = "Register"
    /\ innerCalls' = 1
    /\ innerRet' = innerErr
    /\ regErr' = innerErr
    /\ IF serviceHost = ""
       THEN /\ svcEndpoints' = eps
            /\ registered' = eps
            /\ httpEndpoints' = <<>>
            /\ otherEndpoints' = <<>>
       ELSE LET lists == RegisterLoop(eps, serviceHost, portMap, <<>>, <<>>)
            IN  /\ httpEndpoints' = lists[1]
                /\ otherEndpoints' = lists[2]
                /\ svcEndpoints' = JoinPartitions(lists[1], lists[2])
                /\ registered' = JoinPartitions(lists[1], lists[2])
    /\ UNCHANGED <<env, constructed, serviceHost, portMap>>
    /\ UNCHANGED <<resVars, cliVars, mailVars, authVars>>

\* Register called with a service instance the caller has just built
Register ==
    /\ constructed
    /\ lastOp = "none"
    /\ \E eps \in EndpointLists, innerErr \in InnerErrors :
          RegisterOn(eps, innerErr)

\* Register called again with the instance of the previous call
ReRegister ==
    /\ constructed
    /\ lastOp # "none"
    /\ \E innerErr \in InnerErrors : RegisterOn(svcEndpoints, innerErr)

\* customRegistrar.Deregister with the instance of the previous call
Deregister ==
    /\ constructed
    /\ lastOp # "none"
    /\ \E innerErr \in InnerErrors :
          /\ lastOp' = "Deregister"
          /\ innerCalls' = 1
          /\ innerRet' = innerErr
          /\ regErr' = innerErr
          /\ registered' = svcEndpoints
          /\ inEndpoints' = svcEndpoints
    /\ UNCHANGED <<env, constructed, serviceHost, portMap, svcEndpoints,
                   httpEndpoints, otherEndpoints>>
    /\ UNCHANGED <<resVars, cliVars, mailVars, authVars>>

RegNext == NewConsulRegistrar \/ Register \/ ReRegister \/ Deregister

(***************************************************************************)
(* Specifications                                                          *)
(***************************************************************************)
\* before NewConsulRegistrar, for every environment; the resource Client idle
InitRegistry ==
    /\ env \in [SERVICE_HOST : ServiceHostEnvs,
                HTTP_PORT_MAP : HttpPortMapEnvs,
                GRPC_PORT_MAP : GrpcPortMapEnvs]
    /\ constructed = FALSE
    /\ serviceHost = ""
    /\ portMap = EmptyMap
    /\ inEndpoints = <<>>
    /\ svcEndpoints = <<>>
    /\ httpEndpoints = <<>>
    /\ otherEndpoints = <<>>
    /\ registered = <<>>
    /\ innerCalls = 0
    /\ innerRet = ""
    /\ lastOp = "none"
    /\ regErr = ""
    /\ resOp = "none"
    /\ reqIn = <<>>
    /\ reqOut = <<>>
    /\ argIn = ZeroArgs
    /\ sent = <<>>
    /\ remote = NoReply
    /\ ret = ZeroRet
    /\ callerCtx = [deadline |-> NoDeadline, cancelAt |-> Never]
    /\ callCtx = <<>>
    /\ replyAt = 0
    /\ newOp = "none"
    /\ newArgs = [config |-> <<>>, discovery |-> ""]
    /\ cfgObj = <<>>
    /\ client = <<>>
    /\ newErr = NilErr
    /\ dials = 0
    /\ closeErr = "unset"
    /\ mailOp = "none"
    /\ mailReq = <<>>
    /\ smtpTimeout = TenSeconds
    /\ mailCallerCtx = [deadline |-> NoDeadline, cancelAt |-> Never]
    /\ mailCtx = <<>>
    /\ mailData = <<>>
    /\ renders = 0
    /\ rendered = <<>>
    /\ mailPc = "idle"
    /\ smtpLog = <<>>
    /\ mailErr = NilErr
    /\ elapsed = 0
    /\ authOp = "none"
    /\ authIn = NoRequest
    /\ handlerCalls = 0
    /\ handlerCtx = <<>>
    /\ handlerRet = NoReturn
    /\ authRet = NoReturn

\* a resource Client built by NewClient that has served no call; no registrar built
InitResource ==
    /\ env = [SERVICE_HOST |-> "", HTTP_PORT_MAP |-> "", GRPC_PORT_MAP |-> ""]
    /\ constructed = FALSE
    /\ serviceHost = ""
    /\ portMap = EmptyMap
    /\ inEndpoints = <<>>
    /\ svcEndpoints = <<>>
    /\ httpEndpoints = <<>>
    /\ otherEndpoints = <<>>
    /\ registered = <<>>
    /\ innerCalls = 0
    /\ innerRet = ""
    /\ lastOp = "none"
    /\ regErr = ""
    /\ resOp = "none"
    /\ reqIn = <<>>
    /\ reqOut = <<>>
    /\ argIn = ZeroArgs
    /\ sent = <<>>
    /\ remote = NoReply
    /\ ret = ZeroRet
    /\ callerCtx = [deadline |-> NoDeadline, cancelAt |-> Never]
    /\ callCtx = <<>>
    /\ replyAt = 0
    /\ newOp = "NewClient"
    /\ \E t \in {5, TenSeconds} :
          /\ newArgs = [config |-> <<[Address |-> "resource-service:9000", Timeout |-> t]>>,
                        discovery |-> ""]
          /\ cfgObj = <<[Address |-> "resource-service:9000", Timeout |-> t]>>
          /\ client = <<[config |-> [Address |-> "resource-service:9000", Timeout |-> t],
                         conn |-> "open"]>>
    /\ newErr = NilErr
    /\ dials = 1
    /\ closeErr = "unset"
    /\ mailOp = "none"
    /\ mailReq = <<>>
    /\ smtpTimeout = TenSeconds
    /\ mailCallerCtx = [deadline |-> NoDeadline, cancelAt |-> Never]
    /\ mailCtx = <<>>
    /\ mailData = <<>>
    /\ renders = 0
    /\ rendered = <<>>
    /\ mailPc = "idle"
    /\ smtpLog = <<>>
    /\ mailErr = NilErr
    /\ elapsed = 0
    /\ authOp = "none"
    /\ authIn = NoRequest
    /\ handlerCalls = 0
    /\ handlerCtx = <<>>
    /\ handlerRet = NoReturn
    /\ authRet = NoReturn

\* no resource Client constructed yet; no registrar built
InitClient ==
    /\ env = [SERVICE_HOST |-> "", HTTP_PORT_MAP |-> "", GRPC_PORT_MAP |-> ""]
    /\ constructed = FALSE
    /\ serviceHost = ""
    /\ portMap = EmptyMap
    /\ inEndpoints = <<>>
    /\ svcEndpoints = <<>>
    /\ httpEndpoints = <<>>
    /\ otherEndpoints = <<>>
    /\ registered = <<>>
    /\ innerCalls = 0
    /\ innerRet = ""
    /\ lastOp = "none"
    /\ regErr = ""
    /\ resOp = "none"
    /\ reqIn = <<>>
    /\ reqOut = <<>>
    /\ argIn = ZeroArgs
    /\ sent = <<>>
    /\ remote = NoReply
    /\ ret = ZeroRet
    /\ callerCtx = [deadline |-> NoDeadline, cancelAt |-> Never]
    /\ callCtx = <<>>
    /\ replyAt = 0
    /\ newOp = "none"
    /\ newArgs = [config |-> <<>>, discovery |-> ""]
    /\ cfgObj = <<>>
    /\ client = <<>>
    /\ newErr = NilErr
    /\ dials = 0
    /\ closeErr = "unset"
    /\ mailOp = "none"
    /\ mailReq = <<>>
    /\ smtpTimeout = TenSeconds
    /\ mailCallerCtx = [deadline |-> NoDeadline, cancelAt |-> Never]
    /\ mailCtx = <<>>
    /\ mailData = <<>>
    /\ renders = 0
    /\ rendered = <<>>
    /\ mailPc = "idle"
    /\ smtpLog = <<>>
    /\ mailErr = NilErr
    /\ elapsed = 0
    /\ authOp = "none"
    /\ authIn = NoRequest
    /\ handlerCalls = 0
    /\ handlerCtx = <<>>
    /\ handlerRet = NoReturn
    /\ authRet = NoReturn

\* an email Service that has sent nothing; nothing else constructed
InitEmail ==
    /\ env = [SERVICE_HOST |-> "", HTTP_PORT_MAP |-> "", GRPC_PORT_MAP |-> ""]
    /\ constructed = FALSE
    /\ serviceHost = ""
    /\ portMap = EmptyMap
    /\ inEndpoints = <<>>
    /\ svcEndpoints = <<>>
    /\ httpEndpoints = <<>>
    /\ otherEndpoints = <<>>
    /\ registered = <<>>
    /\ innerCalls = 0
    /\ innerRet = ""
    /\ lastOp = "none"
    /\ regErr = ""
    /\ resOp = "none"
    /\ reqIn = <<>>
    /\ reqOut = <<>>
    /\ argIn = ZeroArgs
    /\ sent = <<>>
    /\ remote = NoReply
    /\ ret = ZeroRet
    /\ callerCtx = [deadline |-> NoDeadline, cancelAt |-> Never]
    /\ callCtx = <<>>
    /\ replyAt = 0
    /\ newOp = "none"
    /\ newArgs = [config |-> <<>>, discovery |-> ""]
    /\ cfgObj = <<>>
    /\ client = <<>>
    /\ newErr = NilErr
    /\ dials = 0
    /\ closeErr = "unset"
    /\ mailOp = "none"
    /\ mailReq = <<>>
    /\ smtpTimeout \in SmtpTimeouts
    /\ mailCallerCtx = [deadline |-> NoDeadline, cancelAt |-> Never]
    /\ mailCtx = <<>>
    /\ mailData = <<>>
    /\ renders = 0
    /\ rendered = <<>>
    /\ mailPc = "idle"
    /\ smtpLog = <<>>
    /\ mailErr = NilErr
    /\ elapsed = 0
    /\ authOp = "none"
    /\ authIn = NoRequest
    /\ handlerCalls = 0
    /\ handlerCtx = <<>>
    /\ handlerRet = NoReturn
    /\ authRet = NoReturn

\* a middleware chain that has handled no request; nothing else constructed
InitAuth ==
    /\ env = [SERVICE_HOST |-> "", HTTP_PORT_MAP |-> "", GRPC_PORT_MAP |-> ""]
    /\ constructed = FALSE
    /\ serviceHost = ""
    /\ portMap = EmptyMap
    /\ inEndpoints = <<>>
    /\ svcEndpoints = <<>>
    /\ httpEndpoints = <<>>
    /\ otherEndpoints = <<>>
    /\ registered = <<>>
    /\ innerCalls = 0
    /\ innerRet = ""
    /\ lastOp = "none"
    /\ regErr = ""
    /\ resOp = "none"
    /\ reqIn = <<>>
    /\ reqOut = <<>>
    /\ argIn = ZeroArgs
    /\ sent = <<>>
    /\ remote = NoReply
    /\ ret = ZeroRet
    /\ callerCtx = [deadline |-> NoDeadline, cancelAt |-> Never]
    /\ callCtx = <<>>
    /\ replyAt = 0
    /\ newOp = "none"
    /\ newArgs = [config |-> <<>>, discovery |-> ""]
    /\ cfgObj = <<>>
    /\ client = <<>>
    /\ newErr = NilErr
    /\ dials = 0
    /\ closeErr = "unset"
    /\ mailOp = "none"
    /\ mailReq = <<>>
    /\ smtpTimeout = TenSeconds
    /\ mailCallerCtx = [deadline |-> NoDeadline, cancelAt |-> Never]
    /\ mailCtx = <<>>
    /\ mailData = <<>>
    /\ renders = 0
    /\ rendered = <<>>
    /\ mailPc = "idle"
    /\ smtpLog = <<>>
    /\ mailErr = NilErr
    /\ elapsed = 0
    /\ authOp = "none"
    /\ authIn = NoRequest
    /\ handlerCalls = 0
    /\ handlerCtx = <<>>
    /\ handlerRet = NoReturn
    /\ authRet = NoReturn

\* the service registrar
SpecRegistry == InitRegistry /\ [][RegNext]_vars

\* the operations of a constructed resource Client
SpecResource == InitResource /\ [][ResNext]_vars

\* construction and closing of the resource Client
SpecClient == InitClient /\ [][CliNext]_vars

\* the email Service and its Sender
SpecEmail == InitEmail /\ [][MailNext]_vars

\* the two claims middlewares
SpecAuth == InitAuth /\ [][AuthNext]_vars

(***************************************************************************)
(* Properties of the registrar (checked under SpecRegistry)                *)
(***************************************************************************)
Range(q) == {q[i] : i \in 1..Len(q)}

\* parts of the well-formed endpoints scheme://host:port the properties range over
Schemes == {"http", "grpc", "https", "HTTP"}

Hosts == {"a", "[::1]", "10.0.0.5", "127.0.0.1"}

Ports == {"8", "9", "30", "40", "41", ""}

\* a Register call has returned and the registrar had a host to substitute
Rewrote == lastOp = "Register" /\ serviceHost # ""

\* C1 as stated: every well-formed input scheme://host:port is registered as
\* scheme://serviceHost:port', port' being the map's value whenever port is a
\* key of the port map
C1_MappedWheneverKey ==
    Rewrote =>
        \A i \in 1..Len(inEndpoints) : \A s \in Schemes, h \in Hosts, p \in Ports :
            inEndpoints[i] = s \o "://" \o h \o ":" \o p =>
                LET q == IF p \in DOMAIN portMap THEN portMap[p] ELSE p
                IN  s \o "://" \o serviceHost \o ":" \o q \in Range(registered)

\* C1, amended: every well-formed input scheme://host:port is registered as
\* scheme://serviceHost:port', port' being the map's value whenever port is a
\* key of the port map with a non-empty value, and port otherwise; the
\* end-to-end scenario of the specification gives the stated list
C1_RewriteHostAndPort ==
    /\ Rewrote =>
          \A i \in 1..Len(inEndpoints) : \A s \in Schemes, h \in Hosts, p \in Ports :
              inEndpoints[i] = s \o "://" \o h \o ":" \o p =>
                  LET q == IF p \in DOMAIN portMap /\ portMap[p] # ""
                           THEN portMap[p] ELSE p
                  IN  s \o "://" \o serviceHost \o ":" \o q \in Range(registered)
    /\ (/\ Rewrote
        /\ inEndpoints = <<"http://a:8", "grpc://a:9">>
        /\ serviceHost = "10.0.0.5"
        /\ portMap = ("8" :> "30"))
          => registered = <<"http://10.0.0.5:30", "grpc://10.0.0.5:9">>

\* a mapped and an unmapped well-formed endpoint were rewritten
C1_Witness ==
    /\ Rewrote
    /\ inEndpoints = <<"http://a:8", "grpc://a:9">>
    /\ serviceHost = "10.0.0.5"
    /\ portMap = ("8" :> "30")
    /\ registered = <<"http://10.0.0.5:30", "grpc://10.0.0.5:9">>

\* the input string starts with http://
HasHttpPrefix(e) == Len(e) >= 7 /\ SubSeq(e, 1, 7) = "http://"

\* the input string starts with http:// and the rest splits into host and port
IsHttpHostPort(e) == HasHttpPrefix(e) /\ SplitHostPort(From(e, 8)).ok

\* position of input element i in a stable partition that puts the elements
\* of the index set first into front
StablePos(first, n, i) ==
    IF i \in first
    THEN Cardinality({j \in 1..i : j \in first})
    ELSE Cardinality(first) + Cardinality({j \in 1..i : j \notin first})

\* the registered list is the stable partition of the rewritten inputs that
\* puts the inputs of the index set first into front
IsStablePartition(first) ==
    /\ Len(registered) = Len(inEndpoints)
    /\ \A i \in 1..Len(inEndpoints) :
          registered[StablePos(first, Len(inEndpoints), i)]
              = RewriteEndpoint(inEndpoints[i], serviceHost, portMap).out

\* C2 as stated: the registered list is the stable partition of the inputs
\* with the inputs prefixed http:// in front, one element per input
C2_PrefixedFirst ==
    Rewrote =>
        IsStablePartition({i \in 1..Len(inEndpoints) : HasHttpPrefix(inEndpoints[i])})

\* C2, amended: the registered list is the stable partition of the inputs
\* with the inputs that are prefixed http:// and whose remainder splits into
\* host and port in front, one element per input
C2_StablePartition ==
    Rewrote =>
        IsStablePartition({i \in 1..Len(inEndpoints) : IsHttpHostPort(inEndpoints[i])})

\* an http endpoint that followed a malformed http:// string and a grpc
\* endpoint was registered first
C2_Witness ==
    /\ Rewrote
    /\ Len(inEndpoints) = 2
    /\ inEndpoints[1] \in {"http://a", "grpc://a:9"}
    /\ inEndpoints[2] = "http://a:8"
    /\ registered[1] = "http://" \o serviceHost \o ":" \o FinalPort("8", portMap)
    /\ registered[2] = RewriteEndpoint(inEndpoints[1], serviceHost, portMap).out

\* the string has no "://", or what follows the first "://" does not split
\* into host and port
Malformed(e) ==
    \/ \A i \in 1..(Len(e) - 2) : SubSeq(e, i, i + 2) # "://"
    \/ ~SplitHostPort(From(e, Index(e, "://") + 3)).ok

\* C3: a malformed endpoint is handed to the inner registrar unchanged, after
\* every endpoint of the http partition and in input order among the other
\* endpoints, and Register still calls the inner registrar once and returns
\* its result
C3_MalformedPassThrough ==
    Rewrote =>
        /\ innerCalls = 1
        /\ regErr = innerRet
        /\ registered = httpEndpoints \o otherEndpoints
        /\ \A i \in 1..Len(inEndpoints) :
              Malformed(inEndpoints[i]) =>
                  LET k == Cardinality({j \in 1..i : ~IsHttpHostPort(inEndpoints[j])})
                  IN  /\ k <= Len(otherEndpoints)
                      /\ otherEndpoints[k] = inEndpoints[i]
                      /\ registered[Len(httpEndpoints) + k] = inEndpoints[i]

\* a malformed string went through a Register call that also rewrote an http
\* endpoint, and Register returned nil
C3_Witness ==
    /\ Rewrote
    /\ Len(inEndpoints) = 2
    /\ inEndpoints[1] \in {"a:8", "http://a", "grpc://a:b:8"}
    /\ inEndpoints[2] = "http://a:8"
    /\ Len(httpEndpoints) = 1
    /\ otherEndpoints = <<inEndpoints[1]>>
    /\ registered[2] = inEndpoints[1]
    /\ innerCalls = 1
    /\ regErr = ""

\* positions of ":" in a string
Colons(v) == {i \in 1..Len(v) : SubSeq(v, i, i) = ":"}

\* the map after one "left:right" pair was parsed into m: left -> right is
\* added when v holds exactly one ":", and m is unchanged otherwise
WithPair(v, m) ==
    IF Cardinality(Colons(v)) = 1
    THEN LET c == CHOOSE i \in Colons(v) : TRUE
         IN  [key \in DOMAIN m \cup {SubSeq(v, 1, c - 1)} |->
                 IF key = SubSeq(v, 1, c - 1) THEN From(v, c + 1) ELSE m[key]]
    ELSE m

\* C4: parseEnvToMap adds left -> right exactly when its input splits on ":"
\* into exactly two tokens and leaves the target map unchanged for the empty
\* string, one token and three or more tokens
C4_ParseEnvToMap ==
    /\ constructed =>
          portMap = WithPair(env.GRPC_PORT_MAP, WithPair(env.HTTP_PORT_MAP, EmptyMap))
    /\ \A v \in {"", "abc", "a:b:c"} :
          parseEnvToMap(v, portMap) = portMap
    /\ (constructed /\ env.HTTP_PORT_MAP = "8:30" /\ env.GRPC_PORT_MAP \in {"", "a:b:c"})
          => portMap = ("8" :> "30")
    /\ (constructed /\ env.HTTP_PORT_MAP = "abc" /\ env.GRPC_PORT_MAP \in {"", "a:b:c"})
          => portMap = EmptyMap

\* a pair was added and a three-token value was then ignored
C4_Witness ==
    /\ constructed
    /\ env.HTTP_PORT_MAP = "8:30"
    /\ env.GRPC_PORT_MAP = "a:b:c"
    /\ portMap = ("8" :> "30")

\* the port a rewritten endpoint gets for the input port p
MappedPort(p) ==
    IF p \in DOMAIN portMap /\ portMap[p] # "" THEN portMap[p] ELSE p

\* every endpoint of the list that splits into scheme, host and port has a
\* port the port map leaves as it is
PortsFinal(eps) ==
    \A i \in 1..Len(eps) :
        LET parts == SplitN2(eps[i], "://")
        IN  (Len(parts) = 2 /\ SplitHostPort(parts[2]).ok) =>
                LET p == SplitHostPort(parts[2]).port
                IN  p \notin DOMAIN portMap \/ portMap[p] \in {"", p}

\* C12: a Register call on the list a previous Register call produced, with
\* the same host and port map, registers that same list again (same strings,
\* same order) when the ports of the list are final
C12_RewriteIdempotent ==
    [][(/\ lastOp = "Register"
        /\ lastOp' = "Register"
        /\ serviceHost # ""
        /\ PortsFinal(registered))
          => (registered' = registered /\ svcEndpoints' = svcEndpoints)]_vars

\* a rewritten list went through Register a second time and came out the same
C12_Witness ==
    /\ Rewrote
    /\ inEndpoints = <<"http://10.0.0.5:30", "grpc://10.0.0.5:9">>
    /\ portMap = ("8" :> "30")
    /\ registered = inEndpoints

\* C13: Register leaves the caller's ServiceInstance as it was: after the call
\* service.Endpoints is the list the caller passed in
C13_InstanceUntouched ==
    lastOp = "Register" => svcEndpoints = inEndpoints

\* the text before the first "://"
Scheme(e) == SubSeq(e, 1, Index(e, "://") - 1)

\* the text after the first "://"
Remainder(e) == From(e, Index(e, "://") + 3)

\* the endpoint has a "://" and its remainder splits into host and port
Parsed(e) == Index(e, "://") # 0 /\ SplitHostPort(Remainder(e)).ok

HasPrefix(e, pre) == Len(e) >= Len(pre) /\ SubSeq(e, 1, Len(pre)) = pre

\* C18: a rewritten endpoint is in the http partition exactly when its scheme
\* is the literal string http; rewritten endpoints of any other scheme and
\* all unparsed strings are in the other partition, each in input order
C18_HttpPartitionIffSchemeHttp ==
    Rewrote =>
        LET n == Len(inEndpoints)
            H == {i \in 1..n : Parsed(inEndpoints[i]) /\ Scheme(inEndpoints[i]) = "http"}
        IN  /\ Len(httpEndpoints) = Cardinality(H)
            /\ Len(otherEndpoints) = n - Cardinality(H)
            /\ \A i \in H :
                  HasPrefix(httpEndpoints[Cardinality({j \in 1..i : j \in H})],
                            "http://" \o serviceHost \o ":")
            /\ \A i \in (1..n) \ H :
                  LET o == otherEndpoints[Cardinality({j \in 1..i : j \notin H})]
                  IN  IF Parsed(inEndpoints[i])
                      THEN /\ Scheme(inEndpoints[i]) # "http"
                           /\ HasPrefix(o, Scheme(inEndpoints[i]) \o "://" \o serviceHost \o ":")
                      ELSE o = inEndpoints[i]

\* an https, HTTP or grpc endpoint went to the other partition while the http
\* endpoint after it went to the http partition
C18_Witness ==
    /\ Rewrote
    /\ Len(inEndpoints) = 2
    /\ inEndpoints[1] \in {"https://a:", "HTTP://a:8", "grpc://a:9"}
    /\ inEndpoints[2] = "http://a:8"
    /\ Len(httpEndpoints) = 1
    /\ HasPrefix(httpEndpoints[1], "http://")
    /\ Len(otherEndpoints) = 1
    /\ HasPrefix(otherEndpoints[1], Scheme(inEndpoints[1]) \o "://" \o serviceHost)

\* the text after the last ":"
AfterLastColon(e) == From(e, LastIndexByte(e, ":") + 1)

\* C19: the mapped port is substituted only for a port that is in the port
\* map with a non-empty value; a port whose map entry is empty, as
\* parseEnvToMap("8:") produces, is kept, so a rewritten endpoint has an empty
\* port only if the input endpoint's port was empty
C19_EmptyMapValueKeepsPort ==
    /\ parseEnvToMap("8:", EmptyMap) = ("8" :> "")
    /\ Rewrote =>
          LET n == Len(inEndpoints)
              H == {i \in 1..n : IsHttpHostPort(inEndpoints[i])}
          IN  \A i \in 1..n :
                  Parsed(inEndpoints[i]) =>
                      LET p == AfterLastColon(Remainder(inEndpoints[i]))
                          q == AfterLastColon(registered[StablePos(H, n, i)])
                      IN  /\ (p \in DOMAIN portMap /\ portMap[p] = "") => q = p
                          /\ q # p => (p \in DOMAIN portMap /\ portMap[p] = q)
                          /\ q = "" => p = ""

\* the port map held 8 -> "" and http://a:8 was registered with port 8
C19_Witness ==
    /\ Rewrote
    /\ "8" \in DOMAIN portMap
    /\ portMap["8"] = ""
    /\ inEndpoints = <<"http://a:8", "https://a:">>
    /\ registered = <<"http://" \o serviceHost \o ":8", "https://" \o serviceHost \o ":">>

\* C20 as stated: an endpoint with "://" is rewritten, with the port after the
\* last ":" of its remainder, whenever the remainder holds a ":" at all, and
\* is passed through only when the remainder holds none
C20_RewriteOnAnyColon ==
    Rewrote =>
        \A i \in 1..Len(inEndpoints) :
            Index(inEndpoints[i], "://") # 0 =>
                IF LastIndexByte(Remainder(inEndpoints[i]), ":") = 0
                THEN inEndpoints[i] \in Range(otherEndpoints)
                ELSE Scheme(inEndpoints[i]) \o "://" \o serviceHost \o ":"
                        \o MappedPort(AfterLastColon(Remainder(inEndpoints[i])))
                     \in Range(registered)

NoBracket(x) == Index(x, "[") = 0 /\ Index(x, "]") = 0

\* the address is host:port with a port free of brackets and a host that is
\* either free of ":" and brackets or one bracketed literal [...]
IsHostPort(a) ==
    LET c == LastIndexByte(a, ":")
        h == SubSeq(a, 1, c - 1)
    IN  /\ c # 0
        /\ NoBracket(From(a, c + 1))
        /\ \/ NoBracket(h) /\ Index(h, ":") = 0
           \/ /\ Len(h) >= 2
              /\ SubSeq(h, 1, 1) = "["
              /\ SubSeq(h, Len(h), Len(h)) = "]"
              /\ NoBracket(SubSeq(h, 2, Len(h) - 1))

\* C20, amended: an endpoint with "://" is rewritten, with the port after the
\* last ":" of its remainder, exactly when the remainder is host:port with a
\* host free of ":" or a bracketed host; a remainder with no ":" or with
\* further colons outside brackets (a:b:80, unbracketed IPv6) is passed
\* through unchanged
C20_RewriteIffHostPort ==
    Rewrote =>
        LET n == Len(inEndpoints)
            H == {i \in 1..n : /\ HasHttpPrefix(inEndpoints[i])
                               /\ IsHostPort(From(inEndpoints[i], 8))}
        IN  \A i \in 1..n :
                Index(inEndpoints[i], "://") # 0 =>
                    registered[StablePos(H, n, i)] =
                        IF IsHostPort(Remainder(inEndpoints[i]))
                        THEN Scheme(inEndpoints[i]) \o "://" \o serviceHost \o ":"
                                \o MappedPort(AfterLastColon(Remainder(inEndpoints[i])))
                        ELSE inEndpoints[i]

\* a bracketed IPv6 endpoint was rewritten and a remainder with two colons
\* was passed through
C20_Witness ==
    /\ Rewrote
    /\ inEndpoints = <<"grpc://a:b:8", "http://[::1]:9">>
    /\ registered = <<"http://" \o serviceHost \o ":" \o MappedPort("9"), "grpc://a:b:8">>

(***************************************************************************)
(* Properties of the resource Client (checked under SpecResource)          *)
(***************************************************************************)
BatchOps == {"BatchGetFileUrls", "BatchGetFileUrlsWithOptions"}

\* a batch operation has returned after a gRPC call that answered without error
BatchAnswered == resOp \in BatchOps /\ Len(sent) = 1 /\ remote.err = ""

\* C5: after a successful remote batch call the returned map has exactly the
\* keys of the response's Results map; a requested ID the response omits is
\* absent and the call still returns a nil error
C5_ExactlyResponseKeys ==
    BatchAnswered =>
        /\ ret.err = NilErr
        /\ Len(ret.results) = 1
        /\ DOMAIN ret.results[1] = DOMAIN remote.resp[1].Results
        /\ \A id \in Range(sent[1].FileIds) :
              id \notin DOMAIN remote.resp[1].Results => id \notin DOMAIN ret.results[1]

\* f1 and f2 were requested, the response held f1 (failed) and the unrequested
\* f9, and the returned map has exactly those keys
C5_Witness ==
    /\ BatchAnswered
    /\ sent[1].FileIds = <<"f1", "f2">>
    /\ DOMAIN remote.resp[1].Results = {"f1", "f9"}
    /\ ~remote.resp[1].Results["f1"].Success
    /\ DOMAIN ret.results[1] = {"f1", "f9"}
    /\ ret.err = NilErr

\* C6: when the remote batch call returns without error the operation returns
\* a nil error however many items failed; a failed item shows only in its own
\* entry, and every entry keeps the success flag, error and URL of its own item
C6_ItemFailureNotEscalated ==
    BatchAnswered =>
        /\ ret.err = NilErr
        /\ Len(ret.results) = 1
        /\ \A k \in DOMAIN remote.resp[1].Results :
              /\ k \in DOMAIN ret.results[1]
              /\ ret.results[1][k].Success = remote.resp[1].Results[k].Success
              /\ ret.results[1][k].Error = remote.resp[1].Results[k].Error
              /\ ret.results[1][k].URL = remote.resp[1].Results[k].Url

\* every item of the response failed and the call returned a nil error
C6_Witness ==
    /\ BatchAnswered
    /\ DOMAIN remote.resp[1].Results = {"f1", "f2"}
    /\ \A k \in {"f1", "f2"} : ~remote.resp[1].Results[k].Success
    /\ ret.err = NilErr
    /\ ~ret.results[1]["f1"].Success
    /\ ret.results[1]["f2"].Error # ""

\* the call carried a nil request, an empty FileIDs list or an empty fileID
MissingInput ==
    \/ resOp \in BatchOps /\ (reqIn = <<>> \/ reqIn[1].FileIDs = <<>>)
    \/ resOp \in {"GetFile", "GetDownloadUrl"} /\ argIn.fileID = ""

\* C7 as stated: a nil request or an empty required field makes the operation
\* return a non-nil error without a gRPC call
C7_MissingInputIsError ==
    MissingInput => ret.err # NilErr /\ sent = <<>>

\* C7, amended: no operation makes a gRPC call for a nil request or an empty
\* required field; GetFile and GetDownloadUrl then return a non-nil error and
\* zero values, the batch operations return an empty non-nil map and a nil
\* error
C7_MissingInputNoCall ==
    MissingInput =>
        /\ sent = <<>>
        /\ resOp \in {"GetFile", "GetDownloadUrl"} =>
              ret.err # NilErr /\ ret.file = <<>> /\ ret.url = ""
        /\ resOp \in BatchOps =>
              ret.err = NilErr /\ ret.results = <<EmptyMap>>

\* BatchGetFileUrlsWithOptions returned for a request with an empty FileIDs list
C7_Witness ==
    /\ resOp = "BatchGetFileUrlsWithOptions"
    /\ reqIn # <<>>
    /\ reqIn[1].FileIDs = <<>>
    /\ sent = <<>>
    /\ ret.err = NilErr
    /\ ret.results = <<EmptyMap>>

C9_DefaultsSent ==
    (/\ Len(sent) = 1
     /\ \/ resOp = "BatchGetFileUrls"
        \/ /\ resOp = "BatchGetFileUrlsWithOptions"
           /\ ~reqIn[1].IncludeVariants
           /\ reqIn[1].ExpiresIn = 0)
        => sent[1].IncludeVariants /\ sent[1].ExpiresIn = 3600

\* every field of a returned entry other than Success and Error is zero
OtherFieldsZero(e) ==
    /\ e.URL = ""
    /\ e.Filename = ""
    /\ e.ContentType = ""
    /\ e.VariantUrls = NilMap
    /\ ~e.IsPublic
    /\ e.ExpiresIn = 0
    /\ e.Size = 0

\* C10 as stated: every returned entry with Success = FALSE carries an error
\* string and has all its other fields zero-valued
C10_FailedEntriesZeroed ==
    BatchAnswered =>
        \A k \in DOMAIN ret.results[1] :
            ~ret.results[1][k].Success =>
                ret.results[1][k].Error # "" /\ OtherFieldsZero(ret.results[1][k])

\* C10, amended: every returned entry with Success = FALSE carries the error
\* string of its remote item, and each of its other fields holds the value the
\* remote item has for it, so it is zero-valued whenever the remote item is
C10_FailedEntriesAsSent ==
    BatchAnswered =>
        \A k \in DOMAIN ret.results[1] :
            ~ret.results[1][k].Success =>
                LET e == ret.results[1][k]
                    w == remote.resp[1].Results[k]
                IN  /\ ~w.Success
                    /\ e.Error = w.Error
                    /\ e.URL = w.Url
                    /\ e.Filename = w.Filename
                    /\ e.ContentType = w.ContentType
                    /\ e.VariantUrls = w.VariantUrls
                    /\ e.IsPublic = w.IsPublic
                    /\ e.ExpiresIn = w.ExpiresIn
                    /\ e.Size = w.Size
                    /\ (w.Error # "" /\ w.Url = "" /\ w.Filename = "" /\ w.Size = 0
                        /\ w.ContentType = "" /\ w.VariantUrls = NilMap /\ ~w.IsPublic
                        /\ w.ExpiresIn = 0)
                          => (e.Error # "" /\ OtherFieldsZero(e))

\* a failed item with all fields zero and a failed item that still had a URL
\* were both returned
C10_Witness ==
    /\ BatchAnswered
    /\ {"f1", "f2"} \subseteq DOMAIN ret.results[1]
    /\ ~ret.results[1]["f1"].Success
    /\ OtherFieldsZero(ret.results[1]["f1"])
    /\ ret.results[1]["f1"].Error = "not found"
    /\ ~ret.results[1]["f2"].Success
    /\ ret.results[1]["f2"].URL = "u2"

\* C11: for every key of a successful remote batch response the returned
\* FileUrlInfo equals the wire item of that key field by field, all nine fields
C11_FieldByFieldCopy ==
    BatchAnswered =>
        \A k \in DOMAIN remote.resp[1].Results :
            LET e == ret.results[1][k]
                w == remote.resp[1].Results[k]
            IN  /\ DOMAIN e = {"URL", "VariantUrls", "IsPublic", "ExpiresIn", "Filename",
                               "Size", "ContentType", "Success", "Error"}
                /\ <<e.URL, e.VariantUrls, e.IsPublic, e.ExpiresIn, e.Filename, e.Size,
                     e.ContentType, e.Success, e.Error>>
                   = <<w.Url, w.VariantUrls, w.IsPublic, w.ExpiresIn, w.Filename, w.Size,
                       w.ContentType, w.Success, w.Error>>

\* two keys with different successful items came back, each with its own fields
C11_Witness ==
    /\ BatchAnswered
    /\ DOMAIN remote.resp[1].Results = {"f1", "f2"}
    /\ remote.resp[1].Results["f1"].Url = "u1"
    /\ remote.resp[1].Results["f2"].Url = "cdn"
    /\ ret.results[1]["f1"].Filename = "a.png"
    /\ ret.results[1]["f1"].ContentType = "image/png"
    /\ ret.results[1]["f1"].VariantUrls = <<("thumb" :> "u1t")>>
    /\ ret.results[1]["f2"].Filename = "b.pdf"
    /\ ret.results[1]["f2"].IsPublic

\* C14: BatchGetFileUrlsWithOptions never writes to the caller's request
\* object: when the call returns the object holds what it held when the call
\* began, so calls that share one request have no write to conflict on
C14_RequestNotWritten ==
    resOp = "BatchGetFileUrlsWithOptions" => reqOut = reqIn

\* the named operation made its remote call
Called == resOp # "none" /\ Len(sent) = 1

\* C15: the one remote call runs under a context derived from the caller's,
\* with a deadline no later than the Client timeout and no later than the
\* caller's deadline; if the caller cancels or a deadline passes before the
\* remote side answers the operation returns an error; the derived context is
\* released when the operation returns, and none is derived without a call
C15_DeadlineAndCancellation ==
    /\ (resOp # "none" /\ sent = <<>>) => callCtx = <<>>
    /\ Called =>
          /\ Len(callCtx) = 1
          /\ callCtx[1].released
          /\ callCtx[1].deadline <= client[1].config.Timeout
          /\ callCtx[1].deadline <= callerCtx.deadline
          /\ (\/ callerCtx.cancelAt < replyAt
              \/ callerCtx.deadline < replyAt
              \/ client[1].config.Timeout < replyAt)
                => /\ ret.err # NilErr
                   /\ ret.err.wraps \in {"context canceled", "context deadline exceeded"}
                   /\ [ret EXCEPT !.err = NilErr] = ZeroRet

\* the caller's deadline of 3s passed before the answer at 7s, under a Client
\* timeout that was longer, and the operation returned the context's error
C15_Witness ==
    /\ Called
    /\ resOp = "ListFiles"
    /\ callerCtx.deadline = 3
    /\ client[1].config.Timeout = 5
    /\ replyAt = 7
    /\ callCtx[1].deadline = 3
    /\ ret.err.wraps = "context deadline exceeded"

SingleOps == {"GetFile", "GetDownloadUrl", "ListFiles"}

\* C16: GetFile, GetDownloadUrl and ListFiles fail atomically: with a non-nil
\* error every other return value is zero, and with a nil error the returned
\* values are exactly those of the remote response
C16_FailAtomically ==
    resOp \in SingleOps =>
        /\ ret.err # NilErr =>
              /\ ret.file = <<>>
              /\ ret.url = ""
              /\ ret.variants = NilMap
              /\ ret.files = <<>>
              /\ ret.total = 0
        /\ ret.err = NilErr =>
              /\ Len(sent) = 1
              /\ remote.err = ""
              /\ resOp = "GetFile" => ret.file = remote.resp
              /\ resOp = "GetDownloadUrl" =>
                    /\ ret.url = remote.resp[1].DownloadUrl
                    /\ ret.variants = remote.resp[1].VariantUrls
              /\ resOp = "ListFiles" =>
                    /\ ret.files = remote.resp[1].Files
                    /\ ret.total = remote.resp[1].Total

\* GetFile returned the remote error and a nil file object
C16_Witness ==
    /\ resOp = "GetFile"
    /\ remote.err = "rpc: unavailable"
    /\ ret.err # NilErr
    /\ ret.file = <<>>

(***************************************************************************)
(* Properties of Client construction (checked under SpecClient)            *)
(***************************************************************************)
\* C17: a constructor returns (nil, error) without dialing when the config's
\* Address is empty, and NewClientWithDiscovery also when discovery is nil;
\* every Client returned has a non-empty Address and a Timeout > 0, a Timeout
\* <= 0 having been replaced by 10s before the one dial
C17_ConstructionFailsFast ==
    newOp # "none" =>
        /\ Len(cfgObj) = 1
        /\ newArgs.config # <<>> => cfgObj[1].Address = newArgs.config[1].Address
        /\ cfgObj[1].Address = "" =>
              client = <<>> /\ newErr # NilErr /\ dials = 0
        /\ (newOp = "NewClientWithDiscovery" /\ newArgs.discovery = "") =>
              client = <<>> /\ newErr # NilErr /\ dials = 0
        /\ client # <<>> =>
              /\ newErr = NilErr
              /\ dials = 1
              /\ client[1].config.Address # ""
              /\ client[1].config.Timeout > 0
              /\ newArgs.config # <<>> =>
                    client[1].config.Timeout =
                        IF newArgs.config[1].Timeout <= 0 THEN 10
                        ELSE newArgs.config[1].Timeout

\* a config with an empty Address was refused without a dial
C17_Witness ==
    /\ newOp = "NewClient"
    /\ newArgs.config # <<>>
    /\ newArgs.config[1].Address = ""
    /\ client = <<>>
    /\ newErr # NilErr
    /\ dials = 0

(***************************************************************************)
(* Properties of the registrar, continued (checked under SpecRegistry)     *)
(***************************************************************************)
\* the value holds exactly one ":" and so is one left:right pair
IsPair(v) == Cardinality(Colons(v)) = 1

\* left and right of the pair
PairKey(v) == SubSeq(v, 1, Index(v, ":") - 1)

PairVal(v) == From(v, Index(v, ":") + 1)

\* C21: the two parseEnvToMap calls of NewConsulRegistrar accumulate into one
\* map: the HTTP_PORT_MAP pair is kept when the GRPC_PORT_MAP pair has another
\* key, the GRPC_PORT_MAP pair wins when both have the same internal port, and
\* the map never has more than two entries
C21_Accumulate ==
    constructed =>
        LET h == env.HTTP_PORT_MAP
            g == env.GRPC_PORT_MAP
        IN  /\ Cardinality(DOMAIN portMap) <= 2
            /\ DOMAIN portMap = {PairKey(v) : v \in {w \in {h, g} : IsPair(w)}}
            /\ IsPair(g) => portMap[PairKey(g)] = PairVal(g)
            /\ (IsPair(h) /\ ~(IsPair(g) /\ PairKey(g) = PairKey(h)))
                  => portMap[PairKey(h)] = PairVal(h)

\* both variables named internal port 8 and the GRPC_PORT_MAP value is in the map
C21_Witness ==
    /\ constructed
    /\ env.HTTP_PORT_MAP = "8:30"
    /\ env.GRPC_PORT_MAP = "8:41"
    /\ portMap = ("8" :> "41")

\* C22: every Register and every Deregister makes exactly one call of the
\* inner registrar and returns that call's error unchanged; Deregister hands
\* the inner registrar the service instance it was given
C22_PureDecorator ==
    /\ lastOp # "none" => (innerCalls = 1 /\ regErr = innerRet)
    /\ lastOp = "none" => innerCalls = 0
    /\ lastOp = "Deregister" => (registered = inEndpoints /\ svcEndpoints = inEndpoints)

\* Register rewrote two endpoints and returned the inner registrar's error
C22_Witness ==
    /\ Rewrote
    /\ Len(inEndpoints) = 2
    /\ registered # inEndpoints
    /\ innerCalls = 1
    /\ innerRet = "consul: unavailable"
    /\ regErr = "consul: unavailable"

(***************************************************************************)
(* Properties of the email Service (checked under SpecEmail)               *)
(***************************************************************************)
\* the fields each Service operation requires
RequiredFields ==
    [SendTenantActivationEmail |-> {"To", "UserName", "TenantName", "ActivationLink"},
     SendInvitationEmail |-> {"To", "UserName", "TenantName", "DepartmentName",
                              "AcceptLink"},
     SendPasswordResetEmail |-> {"To", "UserName", "ResetLink"}]

\* the request of the call is nil or has an empty required field
InvalidRequest ==
    \/ mailReq = <<>>
    \/ \E f \in RequiredFields[mailOp] : mailReq[1][f] = ""

\* C23: a Service operation whose request is nil or has an empty required
\* field returns an error without rendering a template and without any SMTP
\* step; only a request that passes validation reaches the Sender
C23_ValidationBeforeSender ==
    mailOp # "none" =>
        /\ InvalidRequest =>
              /\ mailPc = "returned"
              /\ mailErr # NilErr
              /\ renders = 0
              /\ rendered = <<>>
              /\ mailCtx = <<>>
              /\ smtpLog = <<>>
        /\ (renders > 0 \/ smtpLog # <<>>) => ~InvalidRequest

\* an invitation whose only empty required field is AcceptLink was rejected
C23_Witness ==
    /\ mailOp = "SendInvitationEmail"
    /\ mailReq # <<>>
    /\ mailReq[1].AcceptLink = ""
    /\ \A f \in RequiredFields[mailOp] \ {"AcceptLink"} : mailReq[1][f] # ""
    /\ mailErr = Errorf("required fields cannot be empty")
    /\ renders = 0
    /\ smtpLog = <<>>

\* the entries of the log that are steps of the conversation, in order
MainLog == SelectSeq(smtpLog, LAMBDA e : e.step \notin DeferredSteps)

\* the deferred calls made, in order
DeferredLog == SelectSeq(smtpLog, LAMBDA e : e.step \in DeferredSteps)

\* C27: sendWithTLS makes its steps in the order TLS connect, client
\* creation, AUTH, MAIL FROM, RCPT, DATA, write, close; a step is made only
\* after all earlier steps succeeded; the first failing step ends the send
\* with that step's error; after a successful dial the connection is closed
\* on every path, and QUIT is issued before the close on every path after the
\* client was created
C27_StepOrder ==
    /\ smtpLog = MainLog \o DeferredLog
    /\ Len(MainLog) <= Len(SmtpSteps)
    /\ \A i \in 1..Len(MainLog) :
          /\ MainLog[i].step = SmtpSteps[i]
          /\ i < Len(MainLog) => MainLog[i].ok
    /\ DeferredLog # <<>> => (Len(MainLog) = Len(SmtpSteps) \/ ~MainLog[Len(MainLog)].ok)
    /\ (mailPc = "returned" /\ MainLog # <<>>) =>
          /\ IF \A i \in 1..Len(MainLog) : MainLog[i].ok
             THEN Len(MainLog) = Len(SmtpSteps) /\ mailErr = NilErr
             ELSE /\ mailErr # NilErr
                  /\ HasPrefix(mailErr.wraps, StepMessage(MainLog[Len(MainLog)].step))
          /\ [i \in 1..Len(DeferredLog) |-> DeferredLog[i].step] =
                IF ~MainLog[1].ok THEN <<>>
                ELSE IF ~MainLog[2].ok THEN <<"ConnClose">>
                ELSE <<"Quit", "ConnClose">>

\* the recipient was refused: no DATA, then QUIT and the close of the connection
C27_Witness ==
    /\ mailPc = "returned"
    /\ [i \in 1..Len(smtpLog) |-> smtpLog[i].step] =
          <<"Dial", "NewClient", "Auth", "Mail", "Rcpt", "Quit", "ConnClose">>
    /\ ~smtpLog[5].ok
    /\ HasPrefix(mailErr.wraps, "failed to set recipient")

\* C28: SendEmail does not go on waiting on the SMTP connection or
\* conversation once its timeout has elapsed or the caller's context is
\* cancelled
C28_BoundedByTimeout ==
    (mailPc \notin {"idle", "returned"}) =>
        elapsed <= DoneAt(mailCallerCtx, mailCtx[1].deadline)

\* the template an operation renders
EmailTypeOf ==
    [SendTenantActivationEmail |-> "tenant_activation",
     SendInvitationEmail |-> "invitation",
     SendPasswordResetEmail |-> "password_reset"]

\* C29: every field the subject or body template of an email type references
\* is a key of the data map the Sender method builds for it, and the template
\* manager is only used when each template has a subject and a body
C29_TemplateFieldsSupplied ==
    renders > 0 =>
        /\ \A part \in {"subject", "body"} :
              Range(Templates[EmailTypeOf[mailOp]][part]) \subseteq DOMAIN mailData[1]
        /\ \A emailType \in DOMAIN Templates :
              {"subject", "body"} \subseteq DOMAIN Templates[emailType]

(***************************************************************************)
(* Properties of the claims middlewares (checked under SpecAuth)           *)
(***************************************************************************)
\* the string is one or more decimal digits
IsDigits(s) ==
    /\ s # ""
    /\ \A i \in 1..Len(s) : \E d \in 0..9 : SubSeq(s, i, i) = SubSeq("0123456789", d + 1, d + 1)

\* the digit string without its leading zeros ("0" for zero)
RECURSIVE StripZeros(_)
StripZeros(s) ==
    IF Len(s) > 1 /\ SubSeq(s, 1, 1) = "0" THEN StripZeros(Tail(s)) ELSE s

\* a <= b for two digit strings of the same length
RECURSIVE LeqDigits(_, _)
LeqDigits(a, b) ==
    IF a = "" THEN TRUE
    ELSE IF Digit(SubSeq(a, 1, 1)) # Digit(SubSeq(b, 1, 1))
         THEN Digit(SubSeq(a, 1, 1)) < Digit(SubSeq(b, 1, 1))
         ELSE LeqDigits(Tail(a), Tail(b))

\* the string is a decimal integer in [0, 2^32 - 1]
IsUint32Decimal(s) ==
    /\ IsDigits(s)
    /\ \/ Len(StripZeros(s)) < 10
       \/ Len(StripZeros(s)) = 10 /\ LeqDigits(StripZeros(s), "4294967295")

\* the decimal numeral of a uint32 kept as [hi, lo]
RECURSIVE Decimal(_)
Decimal(n) ==
    LET t == (n.hi % 10) * Word + n.lo
        d == SubSeq("0123456789", (t % 10) + 1, (t % 10) + 1)
    IN  IF n.hi = 0 /\ n.lo < 10 THEN d
        ELSE Decimal([hi |-> n.hi \div 10, lo |-> t \div 10]) \o d

ServerOps == {"Server(true)", "Server(false)"}

\* what Server must refuse
ServerMustReject ==
    \/ ~authIn.present
    \/ ~IsUint32Decimal(HeaderGet(authIn.user))
    \/ authOp = "Server(true)" /\ ~IsUint32Decimal(HeaderGet(authIn.tenant))

\* C24: Server calls the wrapped handler at most once: not at all, returning
\* an error, when there is no transport, when X-User-ID is missing or not a
\* decimal uint32, or (needTenant) when X-Tenant-ID is missing or not a
\* decimal uint32; exactly once, with claims in the context, otherwise
C24_HandlerOnlyAfterValidation ==
    authOp \in ServerOps =>
        IF ServerMustReject
        THEN /\ handlerCalls = 0
             /\ handlerCtx = <<>>
             /\ authRet.err # ""
             /\ authRet.reply = ""
        ELSE /\ handlerCalls = 1
             /\ handlerCtx[1].claims # <<>>
             /\ authRet = authIn.handler

\* a valid user with an invalid tenant was refused by Server(true)
C24_Witness ==
    /\ authOp = "Server(true)"
    /\ authIn.present
    /\ authIn.user = <<"7">>
    /\ authIn.tenant = <<"x">>
    /\ handlerCalls = 0
    /\ authRet.err = "TENANT_INVALID"

\* the handler was called with claims
HasClaims == handlerCtx # <<>> /\ handlerCtx[1].claims # <<>>

\* C25: the UserID and TenantID of the claims are the exact numeric values of
\* the headers they were read from: a header is taken only if it is a decimal
\* integer in [0, 2^32 - 1], a larger value is refused or ignored and never
\* wrapped, and Server(false) always stores TenantID 0
C25_NoTruncatedIdentifier ==
    HasClaims =>
        LET claims == handlerCtx[1].claims[1]
            user == HeaderGet(authIn.user)
            tenant == HeaderGet(authIn.tenant)
        IN  /\ claims.UserID.hi < Word
            /\ claims.TenantID.hi < Word
            /\ IsUint32Decimal(user)
            /\ Decimal(claims.UserID) = StripZeros(user)
            /\ IF authOp = "Server(false)" \/ ~IsUint32Decimal(tenant)
               THEN claims.TenantID = Zero32
               ELSE Decimal(claims.TenantID) = StripZeros(tenant)

\* the largest uint32 was stored as it is and a tenant of 2^32 was ignored
C25_Witness ==
    /\ authOp = "ExtractClaims"
    /\ authIn.user = <<"4294967295">>
    /\ authIn.tenant = <<"4294967296">>
    /\ HasClaims
    /\ handlerCtx[1].claims[1].UserID = [hi |-> 65535, lo |-> 65535]
    /\ handlerCtx[1].claims[1].TenantID = Zero32

\* C26: ExtractClaims calls the handler exactly once for every request and
\* returns its reply and error unchanged; the context carries claims exactly
\* when incoming metadata exists and its first X-User-ID value is a uint32
C26_ExtractNeverRejects ==
    authOp = "ExtractClaims" =>
        /\ handlerCalls = 1
        /\ authRet = authIn.handler
        /\ handlerRet = authIn.handler
        /\ HasClaims <=> (/\ authIn.present
                          /\ Len(authIn.user) > 0
                          /\ IsUint32Decimal(authIn.user[1]))

\* the first X-User-ID value did not parse: the handler ran without claims
\* although tenant and region were valid, and its error was returned
C26_Witness ==
    /\ authOp = "ExtractClaims"
    /\ authIn.present
    /\ authIn.user = <<"x", "7">>
    /\ authIn.tenant = <<"9">>
    /\ authIn.region = <<"cn">>
    /\ handlerCalls = 1
    /\ ~HasClaims
    /\ authRet = [reply |-> "", err |-> "handler failed"]

====
